---- MODULE Spec2Model ----
(***************************************************************************)
(* A model of the mermaid-sonar core: the class-diagram parser and graph   *)
(* builder (src/graph/class-parser.ts), the threshold and lexical rules    *)
(* (src/rules/*.ts), the metrics derived from the canonical graph and the  *)
(* rule engine that evaluates the registry against each diagram.           *)
(*                                                                         *)
(* Text is modelled as a sequence of one-character strings, so that every  *)
(* regular expression of the source is translated as a scan over           *)
(* characters.  Optional values (undefined / null) of sequence type are    *)
(* the empty sequence, which no capture group of the source can produce.   *)
(***************************************************************************)
EXTENDS Integers, Sequences, FiniteSets, TLC

VARIABLES
    inputs,         \* parser: the texts the caller hands to parseClassDiagram, in call order
    calls,          \* parser: the number of calls made so far
    content,        \* parser: the text handed to the last parseClassDiagram call
    classes,        \* parser: the class map returned (in insertion order)
    relationships,  \* parser: the relationship list returned
    graph,          \* parser: the graph returned
    currentClass,   \* parser: extractClasses' local of that name, as the call left it
    inClassBlock,   \* parser: extractClasses' local of that name, as the call left it
    first,          \* parser: the text of the first call and what that call returned
    ruleDiagram,    \* rules: the diagram handed to the checks
    ruleMetrics,    \* rules: the metrics handed to the checks
    plan,           \* rules: the checks to make, each a rule name and a rule configuration
    results,        \* rules: what the checks made so far returned, in order
    canon,          \* metrics: the canonical graph the metrics are computed from
    graphMetrics,   \* metrics: the Metrics snapshot (unset before it is computed)
    memo,           \* longest path: the memoized length per node
    visiting,       \* longest path: the nodes on the current path
    stack,          \* longest path: the frames of the depth-first search, innermost last
    nextRoot,       \* longest path: the index of the next node the outer loop starts from
    longest,        \* longest path: the longest length found so far
    phase,          \* metrics: "metrics", "path" or "done"
    registry,       \* engine: the rule registry
    file,           \* engine: the diagrams of the analysed file, each with its metrics
    resolvedConfig, \* engine: the resolved configuration, one entry per rule name
    faulty,         \* engine: the names of the rules whose check throws
    pos,            \* engine: per diagram, the index of the next rule to evaluate
    issues,         \* engine: per diagram, the issues collected so far
    logged,         \* engine: the faults handed to the reporter, as <<diagram, rule name>>
    aborted,        \* engine: an exception reached the command-line action
    exitCode,       \* engine: the exit code of the process, -1 while it runs
    legacyDiagram,  \* legacy validator: the diagram handed to checkDiagramReadability
    readability,    \* legacy validator: what the calls made so far returned
    widthCase,      \* width rule: the layout, the metrics, the label metrics and the profile
    widthResults,   \* width rule: what the checks made so far returned
    userConfig,     \* configuration: the parsed content of the configuration file (unset when there is none)
    loadedConfig,   \* configuration: what loadConfig returned (unset before the call)
    markdown,       \* extraction: the content of the markdown file
    extracted,      \* extraction: what the calls of extractMermaidDiagrams made so far returned
    cliOptions,     \* command line: the options of the action (rules is false under --no-rules)
    cliAnalysis,    \* command line: what analyzeDiagramFileWithRules does, throw or return results
    cliPhase,       \* command line: the position of the action (start, show, exited)
    shown,          \* command line: the number of results displayed so far
    hasErrors,      \* command line: the action's local of that name
    hasWarnings,    \* command line: the action's local of that name
    cliExit,        \* command line: the exit status of the process, -1 while it runs
    pending,        \* main: the extracted diagrams main has still to validate, each with what mmdc does
    validated,      \* main: the diagrams validateDiagram returned a validation for, in order
    caught,         \* main: the catch block of main ran
    totalDiagrams,  \* main: let totalDiagrams
    invalidDiagrams, \* main: let invalidDiagrams
    unreadableDiagrams, \* main: let unreadableDiagrams
    mainPhase,      \* main: idle, loop or exited
    mainExit        \* main: the status main passed to process.exit, -1 before

parseVars == <<inputs, calls, content, classes, relationships, graph, currentClass, inClassBlock, first>>

ruleVars == <<ruleDiagram, ruleMetrics, plan, results>>

metricVars == <<canon, graphMetrics, memo, visiting, stack, nextRoot, longest, phase>>

engineVars == <<registry, file, resolvedConfig, faulty, pos, issues, logged, aborted, exitCode>>

legacyVars == <<legacyDiagram, readability>>

widthVars == <<widthCase, widthResults>>

configVars == <<userConfig, loadedConfig>>

extractVars == <<markdown, extracted>>

cliVars == <<cliOptions, cliAnalysis, cliPhase, shown, hasErrors, hasWarnings, cliExit>>

mainVars == <<pending, validated, caught, totalDiagrams, invalidDiagrams, unreadableDiagrams, mainPhase, mainExit>>

vars == <<parseVars, ruleVars, metricVars, engineVars, legacyVars, widthVars, configVars, extractVars, cliVars, mainVars>>

-----------------------------------------------------------------------------
(* Characters and strings *)

Null == <<>>

UpperCase == {"A","B","C","D","E","F","G","H","I","J","K","L","M",
              "N","O","P","Q","R","S","T","U","V","W","X","Y","Z"}

LowerCase == {"a","b","c","d","e","f","g","h","i","j","k","l","m",
              "n","o","p","q","r","s","t","u","v","w","x","y","z"}

Digits == {"0","1","2","3","4","5","6","7","8","9"}

\* \w of the source's regular expressions
WordChars == UpperCase \cup LowerCase \cup Digits \cup {"_"}

\* \s of the source's regular expressions, and what trim() strips
WhiteSpace == {" ", "\t", "\r"}

NL == "\n"

Min(a, b) == IF a <= b THEN a ELSE b

Max(a, b) == IF a >= b THEN a ELSE b

\* s.startsWith(p)
StartsWith(s, p) == Len(s) >= Len(p) /\ SubSeq(s, 1, Len(p)) = p

\* the literal p occurs in s at position k
LitAt(s, k, p) == k >= 1 /\ k + Len(p) - 1 <= Len(s) /\ SubSeq(s, k, k + Len(p) - 1) = p

\* s.includes(c) for a single character c
Includes(s, c) == \E i \in 1..Len(s) : s[i] = c

\* the position of the first c at or after k, 0 when there is none
RECURSIVE FirstAt(_, _, _)
FirstAt(t, k, c) == IF k > Len(t) THEN 0 ELSE IF t[k] = c THEN k ELSE FirstAt(t, k + 1, c)

\* \s* from position k: the first position at or after k holding no white space
RECURSIVE SkipWs(_, _)
SkipWs(s, k) == IF k <= Len(s) /\ s[k] \in WhiteSpace THEN SkipWs(s, k + 1) ELSE k

\* a greedy \w* from position k: the position after the longest run of word characters
RECURSIVE WordEnd(_, _)
WordEnd(s, k) == IF k <= Len(s) /\ s[k] \in WordChars THEN WordEnd(s, k + 1) ELSE k

\* the last position at or before k holding no white space (0 when there is none)
RECURSIVE LastNonWs(_, _)
LastNonWs(s, k) == IF k >= 1 /\ s[k] \in WhiteSpace THEN LastNonWs(s, k - 1) ELSE k

\* s.trim()
Trim(s) == SubSeq(s, SkipWs(s, 1), LastNonWs(s, Len(s)))

\* the position of the first NL of s at or after k (Len(s) + 1 when there is none)
RECURSIVE NextNL(_, _)
NextNL(s, k) == IF k <= Len(s) /\ s[k] # NL THEN NextNL(s, k + 1) ELSE k

\* content.split('\n')
RECURSIVE SplitFrom(_, _)
SplitFrom(s, k) ==
    LET e == NextNL(s, k)
    IN  IF e > Len(s) THEN <<SubSeq(s, k, Len(s))>>
        ELSE <<SubSeq(s, k, e - 1)>> \o SplitFrom(s, e + 1)

SplitLines(s) == SplitFrom(s, 1)

\* lines.join('\n')
RECURSIVE JoinLines(_)
JoinLines(ls) ==
    IF Len(ls) = 0 THEN <<>>
    ELSE IF Len(ls) = 1 THEN ls[1]
    ELSE ls[1] \o <<NL>> \o JoinLines(Tail(ls))

-----------------------------------------------------------------------------
(* class-parser.ts: extractClasses *)

StrClass == <<"c","l","a","s","s">>

\* comments that start with "##"
StrCommentHash == <<"#","#">>

StrComment == <<"%","%">>

\* the visibility markers [+\-#~] of the block member pattern
Visibility == {"+", "-", "#", "~"}

\* a new ClassNode { name, attributes: [], methods: [] }
NewClassNode(name) == [name |-> name, attributes |-> <<>>, methods |-> <<>>]

\* classes.has(name), classes a Map kept as the sequence of its values in insertion order
HasClass(cls, name) == \E i \in 1..Len(cls) : cls[i].name = name

\* if (!classes.has(name)) classes.set(name, {...})
EnsureClass(cls, name) == IF HasClass(cls, name) THEN cls ELSE Append(cls, NewClassNode(name))

\* member.includes('(') ? methods.push(member) : attributes.push(member), on classes.get(name)
PushMember(cls, name, member) ==
    [i \in 1..Len(cls) |->
        IF cls[i].name # name THEN cls[i]
        ELSE IF Includes(member, "(")
             THEN [cls[i] EXCEPT !.methods = Append(@, member)]
             ELSE [cls[i] EXCEPT !.attributes = Append(@, member)]]

\* /^class\s+(\w+)\s*(\{?)/.exec(trimmed): Null, or the class name and whether "{" follows
ClassMatch(t) ==
    LET a == Len(StrClass) + 1
        b == SkipWs(t, a)
        e == WordEnd(t, b)
        f == SkipWs(t, e)
    IN  IF StartsWith(t, StrClass) /\ b > a /\ e > b
        THEN [name |-> SubSeq(t, b, e - 1), hasOpenBrace |-> (f <= Len(t) /\ t[f] = "{")]
        ELSE Null

\* /^(\w+)\s*:\s*(.+)/.exec(trimmed): Null, or the class name and the trimmed member text
MemberMatch(t) ==
    LET e == WordEnd(t, 1)
        c == SkipWs(t, e)
        m == SkipWs(t, c + 1)
    IN  IF e > 1 /\ c <= Len(t) /\ t[c] = ":" /\ c < Len(t)
        THEN [name |-> SubSeq(t, 1, e - 1),
              member |-> Trim(SubSeq(t, Min(m, Len(t)), Len(t)))]
        ELSE Null

\* /^([+\-#~])?\s*(.+)/.exec(trimmed)[2].trim(), for a non-empty trimmed line
BlockMember(t) ==
    IF Len(t) >= 2 /\ t[1] \in Visibility
    THEN Trim(SubSeq(t, Min(SkipWs(t, 2), Len(t)), Len(t)))
    ELSE Trim(t)

\* the locals of extractClasses kept from one call to the next (declared at module level)
StaleLocals == [classes |-> classes, currentClass |-> currentClass, inClassBlock |-> inClassBlock]

\* the locals of extractClasses as a fresh call sets them
FreshLocals == [classes |-> <<>>, currentClass |-> Null, inClassBlock |-> FALSE]

\* one iteration of the loop over the lines
ClassLine(st, line) ==
    LET t  == Trim(line)
        cm == ClassMatch(t)
        mm == MemberMatch(t)
    IN  IF StartsWith(t, StrComment) THEN st
        ELSE IF cm # Null THEN
            [classes      |-> EnsureClass(st.classes, cm.name),
             currentClass |-> IF cm.hasOpenBrace THEN cm.name ELSE st.currentClass,
             inClassBlock |-> IF cm.hasOpenBrace THEN TRUE ELSE st.inClassBlock]
        ELSE IF mm # Null THEN
            [st EXCEPT !.classes = PushMember(EnsureClass(st.classes, mm.name), mm.name, mm.member)]
        ELSE IF st.inClassBlock /\ st.currentClass # Null THEN
            IF t = <<"}">> THEN [st EXCEPT !.currentClass = Null, !.inClassBlock = FALSE]
            ELSE IF Len(t) > 0
                 THEN [st EXCEPT !.classes = PushMember(st.classes, st.currentClass, BlockMember(t))]
                 ELSE st
        ELSE st

RECURSIVE ClassLines(_, _)
ClassLines(st, lines) ==
    IF Len(lines) = 0 THEN st ELSE ClassLines(ClassLine(st, Head(lines)), Tail(lines))

\* extractClasses(content), with the locals it ends with
ExtractClassesRun(text) == ClassLines(FreshLocals, SplitLines(text))

ExtractClasses(text) == ExtractClassesRun(text).classes

-----------------------------------------------------------------------------
(* class-parser.ts: extractRelationships *)

StrClassSp == <<"c","l","a","s","s"," ">>

OpInheritance == <<"<","|","-","-">>

OpComposition == <<"*","-","-">>

OpAggregation == <<"o","-","-">>

OpDependency == <<".",".",">">>

OpAssociation == <<"-","-",">">>

Quote == "\""

\* (?:\s*:\s*(.+))? after position e, trimmed: the label, or Null when the group does not match
LabelAt(t, e) ==
    LET c == SkipWs(t, e)
    IN  IF c < Len(t) /\ t[c] = ":"
        THEN Trim(SubSeq(t, Min(SkipWs(t, c + 1), Len(t)), Len(t)))
        ELSE Null

\* (\w+)\s*OP\s*(\w+)(?:\s*:\s*(.+))? with the first group matching t[i..j-1]
RelAt(t, op, i, j) ==
    LET k == SkipWs(t, j)
        m == SkipWs(t, k + Len(op))
        e == WordEnd(t, m)
    IN  IF LitAt(t, k, op) /\ e > m
        THEN [left |-> SubSeq(t, i, j - 1), right |-> SubSeq(t, m, e - 1),
              label |-> LabelAt(t, e), multiplicity |-> Null]
        ELSE Null

\* the position of the first Quote of t at or after k (Len(t) + 1 when there is none)
RECURSIVE NextQuote(_, _)
NextQuote(t, k) == IF k <= Len(t) /\ t[k] # Quote THEN NextQuote(t, k + 1) ELSE k

\* (?:"([^"]+)")? at position k: the quoted text (Null when the group is skipped)
\* and the position after the group
QuotedAt(t, k) ==
    LET c == NextQuote(t, k + 1)
    IN  IF k <= Len(t) /\ t[k] = Quote /\ c <= Len(t) /\ c > k + 1
        THEN [text |-> SubSeq(t, k + 1, c - 1), next |-> c + 1]
        ELSE [text |-> Null, next |-> k]

\* (\w+)\s*(?:"([^"]+)")?\s*-->\s*(?:"([^"]+)")?\s*(\w+)(?:\s*:\s*(.+))?
\* with the first group matching t[i..j-1]
AssocAt(t, i, j) ==
    LET q1 == QuotedAt(t, SkipWs(t, j))
        k  == SkipWs(t, q1.next)
        q2 == QuotedAt(t, SkipWs(t, k + Len(OpAssociation)))
        m  == SkipWs(t, q2.next)
        e  == WordEnd(t, m)
    IN  IF LitAt(t, k, OpAssociation) /\ e > m
        THEN [left |-> SubSeq(t, i, j - 1), right |-> SubSeq(t, m, e - 1),
              label |-> LabelAt(t, e),
              multiplicity |-> [from |-> q1.text, to |-> q2.text]]
        ELSE Null

\* the pattern of one relationship kind, first group fixed to t[i..j-1]
PatternAt(t, op, i, j) == IF op = OpAssociation THEN AssocAt(t, i, j) ELSE RelAt(t, op, i, j)

\* the greedy first group gives characters back: j runs down from the end of the word run
RECURSIVE TryFrom(_, _, _, _)
TryFrom(t, op, i, j) ==
    IF j <= i THEN Null
    ELSE LET r == PatternAt(t, op, i, j)
         IN  IF r # Null THEN r ELSE TryFrom(t, op, i, j - 1)

\* regex.exec(trimmed) of an unanchored pattern: the leftmost start that matches
RECURSIVE Search(_, _, _)
Search(t, op, i) ==
    IF i > Len(t) THEN Null
    ELSE LET r == IF t[i] \in WordChars THEN TryFrom(t, op, i, WordEnd(t, i)) ELSE Null
         IN  IF r # Null THEN r ELSE Search(t, op, i + 1)

\* the match with the rightmost start instead of the leftmost
ExecLast(t, op) ==
    LET Starts == {s \in 1..Len(t) : t[s] \in WordChars /\ TryFrom(t, op, s, WordEnd(t, s)) # Null}
        Last(S) == CHOOSE s \in S : \A o \in S : o <= s
    IN  IF Starts = {} THEN Null ELSE Search(t, op, Last(Starts))

Exec(t, op) == Search(t, op, 1)

\* the relationship of a match with no kind reversed: from is always the left operand
RelationshipAsWritten(m, type) ==
    [from |-> m.left, to |-> m.right, type |-> type, label |-> m.label,
     multiplicity |-> m.multiplicity]

\* the relationship pushed for a match m of the given kind (the parent of an
\* inheritance arrow is its left operand, so from is the right operand)
Relationship(m, type) ==
    IF type = "inheritance"
    THEN [from |-> m.right, to |-> m.left, type |-> type, label |-> m.label,
          multiplicity |-> m.multiplicity]
    ELSE [from |-> m.left, to |-> m.right, type |-> type, label |-> m.label,
          multiplicity |-> m.multiplicity]

\* one iteration of the loop over the lines: the relationships list after the line
RelationshipLine(rels, line) ==
    LET t == Trim(line)
    IN  IF StartsWith(t, StrComment) \/ StartsWith(t, StrClassSp) THEN rels
        ELSE IF Exec(t, OpInheritance) # Null
             THEN Append(rels, Relationship(Exec(t, OpInheritance), "inheritance"))
        ELSE IF Exec(t, OpComposition) # Null
             THEN Append(rels, Relationship(Exec(t, OpComposition), "composition"))
        ELSE IF Exec(t, OpAggregation) # Null
             THEN Append(rels, Relationship(Exec(t, OpAggregation), "aggregation"))
        ELSE IF Exec(t, OpDependency) # Null
             THEN Append(rels, Relationship(Exec(t, OpDependency), "dependency"))
        ELSE IF Exec(t, OpAssociation) # Null
             THEN Append(rels, Relationship(Exec(t, OpAssociation), "association"))
        ELSE rels

RECURSIVE RelationshipLines(_, _)
RelationshipLines(rels, lines) ==
    IF Len(lines) = 0 THEN rels
    ELSE RelationshipLines(RelationshipLine(rels, Head(lines)), Tail(lines))

\* extractRelationships(content)
ExtractRelationships(text) == RelationshipLines(<<>>, SplitLines(text))

-----------------------------------------------------------------------------
(* class-parser.ts: buildGraphFromRelationships, parseClassDiagram *)

\* a list of distinct neighbours: the value is pushed only when the list does not hold it yet
PushToOnce(map, key, value) ==
    [k \in DOMAIN map \cup {key} |->
        IF k # key THEN map[k]
        ELSE IF key \notin DOMAIN map THEN <<value>>
        ELSE IF \E i \in 1..Len(map[key]) : map[key][i] = value THEN map[key]
        ELSE Append(map[key], value)]

\* map.get(key) after "if (!map.has(key)) map.set(key, [])" and a push of value
PushTo(map, key, value) ==
    [k \in DOMAIN map \cup {key} |->
        IF k = key THEN Append(IF key \in DOMAIN map THEN map[key] ELSE <<>>, value)
        ELSE map[k]]

\* the empty Map
EmptyMap == [k \in {} |-> <<>>]

\* the loop over the edges
RECURSIVE AddEdges(_, _)
AddEdges(g, es) ==
    IF Len(es) = 0 THEN g
    ELSE AddEdges([g EXCEPT !.adjacencyList = PushTo(@, Head(es).from, Head(es).to),
                            !.reverseAdjacencyList = PushTo(@, Head(es).to, Head(es).from)],
                  Tail(es))

\* relationships.map((rel) => ({ from, to, label }))
EdgesOf(rels) == [i \in 1..Len(rels) |-> [from |-> rels[i].from, to |-> rels[i].to, label |-> rels[i].label]]

\* Array.from(classes.keys())
KeysOf(cls) == [i \in 1..Len(cls) |-> cls[i].name]

BuildGraphFromRelationships(cls, rels) ==
    AddEdges([nodes |-> KeysOf(cls), edges |-> EdgesOf(rels),
              adjacencyList |-> EmptyMap, reverseAdjacencyList |-> EmptyMap],
             EdgesOf(rels))

ParseClassDiagram(text) ==
    LET cls  == ExtractClasses(text)
        rels == ExtractRelationships(text)
    IN  [classes |-> cls, relationships |-> rels, graph |-> BuildGraphFromRelationships(cls, rels)]

\* the classes an inheritance relationship of rels gives as parents of class c
ParentsOf(rels, c) ==
    {rels[i].to : i \in {i \in 1..Len(rels) : rels[i].type = "inheritance" /\ rels[i].from = c}}

\* the number of levels from class c up to a root of its hierarchy (a class is not
\* visited twice on one chain)
RECURSIVE LevelsFrom(_, _, _)
LevelsFrom(rels, c, seen) ==
    LET Deepest(S) == CHOOSE d \in S : \A o \in S : o <= d
    IN  1 + Deepest({0} \cup {LevelsFrom(rels, q, seen \cup {q}) : q \in ParentsOf(rels, c) \ seen})

\* analysis.maxInheritanceDepth of the class analyzer, which is not among the
\* sources: the number of levels of the deepest inheritance hierarchy
maxInheritanceDepth(rels) ==
    LET Deepest(S) == CHOOSE d \in S : \A o \in S : o <= d
        children   == {rels[i].from : i \in {i \in 1..Len(rels) : rels[i].type = "inheritance"}}
    IN  Deepest({0} \cup {LevelsFrom(rels, c, {c}) : c \in children})

-----------------------------------------------------------------------------
(* src/rules: the rule objects and their checks.  A configuration object is *)
(* a record that holds only the keys that are set; graphDensity and         *)
(* densityThreshold are fractions <<numerator, denominator>> compared by    *)
(* cross-multiplication, which orders them as the quotients are ordered.    *)

\* obj[key] is set (neither undefined nor null)
Has(obj, key) == key \in DOMAIN obj

\* x > y for fractions with positive denominators
Gt(x, y) == x[1] * y[2] > y[1] * x[2]

\* x <= y for fractions with positive denominators
Le(x, y) == x[1] * y[2] <= y[1] * x[2]

\* the literal 0.3 of both node-count rules
DensityLimit == <<3, 10>>

\* a threshold read with || in place of ??: a configured 0 counts as missing
ThresholdOfFalsy(this, config, fallback) ==
    IF Has(config, "threshold") /\ config.threshold # 0 THEN config.threshold
    ELSE IF Has(this, "defaultThreshold") THEN this.defaultThreshold
    ELSE fallback

\* config.threshold ?? this.defaultThreshold ?? fallback
ThresholdOf(this, config, fallback) ==
    IF Has(config, "threshold") THEN config.threshold
    ELSE IF Has(this, "defaultThreshold") THEN this.defaultThreshold
    ELSE fallback

\* config.severity ?? this.defaultSeverity
SeverityOf(this, config) ==
    IF Has(config, "severity") THEN config.severity ELSE this.defaultSeverity

\* the Issue object a check returns; message holds the values interpolated into it
NewIssue(this, severity, diagram, message) ==
    [rule |-> this.name, severity |-> severity, message |-> message,
     filePath |-> diagram.filePath, line |-> diagram.startLine]

maxEdgesRule ==
    [name |-> "max-edges", defaultSeverity |-> "error", defaultThreshold |-> 100]

\* a max-edges check that reports the diagrams below the threshold
MaxEdgesCheckBelow(this, diagram, metrics, config) ==
    LET threshold == ThresholdOf(this, config, 100)
    IN  IF metrics.edgeCount < threshold
        THEN NewIssue(this, SeverityOf(this, config), diagram,
                      <<"Too many connections", metrics.edgeCount, threshold>>)
        ELSE Null

\* maxEdgesRule.check
MaxEdgesCheck(this, diagram, metrics, config) ==
    LET threshold == ThresholdOf(this, config, 100)
        severity  == SeverityOf(this, config)
    IN  IF metrics.edgeCount > threshold
        THEN NewIssue(this, severity, diagram,
                      <<"Too many connections", metrics.edgeCount, threshold>>)
        ELSE Null

maxNodesHighDensityRule ==
    [name |-> "max-nodes-high-density", defaultSeverity |-> "warning", defaultThreshold |-> 50]

\* (x * 100).toFixed(1) of a fraction x, in tenths of a percent
PercentTenths(x) == (2000 * x[1] + x[2]) \div (2 * x[2])

\* maxNodesHighDensityRule.check
MaxNodesHighDensityCheck(this, diagram, metrics, config) ==
    LET threshold        == ThresholdOf(this, config, 50)
        densityThreshold == IF Has(config, "densityThreshold") THEN config.densityThreshold
                            ELSE DensityLimit
        severity         == SeverityOf(this, config)
    IN  IF metrics.nodeCount > threshold /\ Gt(metrics.graphDensity, densityThreshold)
        THEN NewIssue(this, severity, diagram,
                      <<"High cognitive load", metrics.nodeCount,
                        PercentTenths(metrics.graphDensity)>>)
        ELSE Null

maxNodesLowDensityRule ==
    [name |-> "max-nodes-low-density", defaultSeverity |-> "warning", defaultThreshold |-> 100]

\* maxNodesLowDensityRule.check
MaxNodesLowDensityCheck(this, diagram, metrics, config) ==
    LET threshold        == ThresholdOf(this, config, 100)
        densityThreshold == DensityLimit
        severity         == SeverityOf(this, config)
    IN  IF metrics.nodeCount > threshold /\ Le(metrics.graphDensity, densityThreshold)
        THEN NewIssue(this, severity, diagram,
                      <<"Too many nodes", metrics.nodeCount, threshold>>)
        ELSE Null

\* \s of a regular expression applied to a whole text
Space == WhiteSpace \cup {NL}

\* \s* over a whole text from position k
RECURSIVE SkipSpace(_, _)
SkipSpace(s, k) == IF k <= Len(s) /\ s[k] \in Space THEN SkipSpace(s, k + 1) ELSE k

\* a greedy [A-Z0-9]* from position k: the position after the run
RECURSIVE UpperRunEnd(_, _)
UpperRunEnd(s, k) ==
    IF k <= Len(s) /\ s[k] \in UpperCase \cup Digits THEN UpperRunEnd(s, k + 1) ELSE k

\* [^}]*\} from position k: the position of the first "}" at or after k, 0 when none
RECURSIVE CloseAt(_, _)
CloseAt(s, k) ==
    IF k > Len(s) THEN 0 ELSE IF s[k] = "}" THEN k ELSE CloseAt(s, k + 1)

\* \b before position i when s[i] is a word character
WordStart(s, i) == i = 1 \/ s[i - 1] \notin WordChars

\* decisionPattern matched at position i: the position of its last character, 0 when no match
DecisionAt(s, i) ==
    IF s[i] \in UpperCase /\ WordStart(s, i)
    THEN LET k == SkipSpace(s, UpperRunEnd(s, i + 1))
         IN  IF k <= Len(s) /\ s[k] = "{" THEN CloseAt(s, k + 1) ELSE 0
    ELSE 0

\* the number of matches content.match(decisionPattern) finds from position i on
RECURSIVE MatchesFrom(_, _)
MatchesFrom(s, i) ==
    IF i > Len(s) THEN 0
    ELSE LET e == DecisionAt(s, i)
         IN  IF e > 0 THEN 1 + MatchesFrom(s, e + 1) ELSE MatchesFrom(s, i + 1)

countDecisionNodes(text) == MatchesFrom(text, 1)

calculateCyclomaticComplexity(decisionNodeCount) == decisionNodeCount + 1

cyclomaticComplexityRule ==
    [name |-> "cyclomatic-complexity", defaultSeverity |-> "warning", defaultThreshold |-> 10]

\* cyclomaticComplexityRule.check
CyclomaticComplexityCheck(this, diagram, metrics, config) ==
    LET threshold     == ThresholdOf(this, config, 10)
        severity      == SeverityOf(this, config)
        decisionCount == countDecisionNodes(diagram.content)
        complexity    == calculateCyclomaticComplexity(decisionCount)
    IN  IF complexity > threshold
        THEN NewIssue(this, severity, diagram,
                      <<"High cyclomatic complexity", complexity, threshold, decisionCount>>)
        ELSE Null

-----------------------------------------------------------------------------
(* src/rules: the reserved-words rule *)

UpperLetters == <<"A","B","C","D","E","F","G","H","I","J","K","L","M",
                  "N","O","P","Q","R","S","T","U","V","W","X","Y","Z">>

LowerLetters == <<"a","b","c","d","e","f","g","h","i","j","k","l","m",
                  "n","o","p","q","r","s","t","u","v","w","x","y","z">>

\* s.toLowerCase()
ToLowerCase(s) ==
    [i \in 1..Len(s) |->
        IF s[i] \in UpperCase
        THEN LowerLetters[CHOOSE k \in 1..Len(UpperLetters) : UpperLetters[k] = s[i]]
        ELSE s[i]]

RESERVED_WORDS ==
    { <<"e","n","d">>, <<"c","l","i","c","k">>, <<"c","a","l","l">>,
      <<"s","t","y","l","e">>, <<"c","l","a","s","s">>,
      <<"c","l","a","s","s","D","e","f">>,
      <<"d","i","r","e","c","t","i","o","n">> }

structuralKeywords ==
    { <<"g","r","a","p","h">>, <<"f","l","o","w","c","h","a","r","t">>,
      <<"s","u","b","g","r","a","p","h">>, <<"L","R">>, <<"T","D">>, <<"T","B">>,
      <<"R","L">>, <<"B","T">>, <<"L","D">>, <<"R","D">> }

\* the prefixes of the directive lines extractNodeIds skips
DirectivePrefixes ==
    { <<"s","t","y","l","e"," ">>, <<"c","l","a","s","s"," ">>,
      <<"c","l","a","s","s","D","e","f"," ">>, <<"c","l","i","c","k"," ">>,
      <<"d","i","r","e","c","t","i","o","n"," ">> }

\* the prefixes of the declaration lines extractNodeIds skips
DeclarationPrefixes ==
    { <<"g","r","a","p","h"," ">>, <<"f","l","o","w","c","h","a","r","t"," ">>,
      <<"s","u","b","g","r","a","p","h"," ">> }

\* nodeIds.add(nodeId) on a Set kept in insertion order
AddId(ids, id) == IF \E i \in 1..Len(ids) : ids[i] = id THEN ids ELSE Append(ids, id)

\* the while loop over nodePattern.exec(trimmed) from position i on: every maximal run
\* of word characters that does not start with a digit is a match
RECURSIVE IdsFrom(_, _, _)
IdsFrom(ids, t, i) ==
    IF i > Len(t) THEN ids
    ELSE IF t[i] \notin WordChars THEN IdsFrom(ids, t, i + 1)
    ELSE LET e  == WordEnd(t, i)
             id == SubSeq(t, i, e - 1)
         IN  IF t[i] \in Digits \/ id \in structuralKeywords
             THEN IdsFrom(ids, t, e)
             ELSE IdsFrom(AddId(ids, id), t, e)

\* the body of extractNodeIds' loop over the lines
NodeIdsLine(ids, line) ==
    LET trimmed == Trim(line)
    IN  IF \/ \E p \in DirectivePrefixes : StartsWith(trimmed, p)
           \/ trimmed = <<"e","n","d">>
        THEN ids
        ELSE IF \E p \in DeclarationPrefixes : StartsWith(trimmed, p)
        THEN ids
        ELSE IdsFrom(ids, trimmed, 1)

RECURSIVE NodeIdsLines(_, _)
NodeIdsLines(ids, lines) ==
    IF lines = <<>> THEN ids
    ELSE NodeIdsLines(NodeIdsLine(ids, Head(lines)), Tail(lines))

extractNodeIds(text) == NodeIdsLines(<<>>, SplitLines(text))

isReservedWord(nodeId) == ToLowerCase(nodeId) \in RESERVED_WORDS

\* the pattern without its end anchor: /^[ox]\d+/i.test(nodeId)
hasProblematicPrefix(nodeId) ==
    /\ Len(nodeId) >= 2
    /\ nodeId[1] \in {"o", "x", "O", "X"}
    /\ nodeId[2] \in Digits

\* /^[ox]\d+$/i.test(nodeId)
hasProblematicPattern(nodeId) ==
    /\ Len(nodeId) >= 2
    /\ nodeId[1] \in {"o", "x", "O", "X"}
    /\ \A i \in 2..Len(nodeId) : nodeId[i] \in Digits

reservedWordsRule == [name |-> "reserved-words", defaultSeverity |-> "warning"]

\* a reserved-words check whose issue carries the name of another rule
ReservedWordsCheckMisnamed(this, diagram, metrics, config) ==
    LET nodeIds     == extractNodeIds(diagram.content)
        reserved    == SelectSeq(nodeIds, isReservedWord)
        problematic == SelectSeq(nodeIds, hasProblematicPattern)
    IN  IF Len(reserved) = 0 /\ Len(problematic) = 0 THEN Null
        ELSE [rule |-> "max-edges", severity |-> SeverityOf(this, config),
              message |-> <<"Found", Len(reserved) + Len(problematic)>>,
              filePath |-> diagram.filePath, line |-> diagram.startLine,
              suggestion |-> <<reserved, problematic>>]

\* reservedWordsRule.check
ReservedWordsCheck(this, diagram, metrics, config) ==
    LET severity    == SeverityOf(this, config)
        nodeIds     == extractNodeIds(diagram.content)
        reserved    == SelectSeq(nodeIds, isReservedWord)
        problematic == SelectSeq(nodeIds, hasProblematicPattern)
    IN  IF Len(reserved) = 0 /\ Len(problematic) = 0 THEN Null
        ELSE [rule |-> this.name, severity |-> severity,
              message |-> <<"Found", Len(reserved) + Len(problematic)>>,
              filePath |-> diagram.filePath, line |-> diagram.startLine,
              suggestion |-> <<reserved, problematic>>]

-----------------------------------------------------------------------------
(* The parser as a state machine: the caller hands parseClassDiagram one    *)
(* text after the other.                                                    *)

\* the largest number of lines of a text handed to the parser
MaxLines == 3

\* "class A {"
LineOpenA == <<"c","l","a","s","s"," ","A"," ","{">>

\* "}"
LineClose == <<"}">>

\* "  +m()"
LineBlockMember == <<" "," ","+","m","(",")">>

\* "B : x"
LineMemberB == <<"B"," ",":"," ","x">>

\* "A <|-- B"
LineInherit == <<"A"," ","<","|","-","-"," ","B">>

\* "A --> A : l"
LineAssocSelf == <<"A"," ","-","-",">"," ","A"," ",":"," ","l">>

\* "B *-- C"
LineCompose == <<"B"," ","*","-","-"," ","C">>

\* "class B"
LineClassB == <<"c","l","a","s","s"," ","B">>

\* the lines the texts are made of
Lines == {LineOpenA, LineClose, LineBlockMember, LineMemberB, LineInherit, LineAssocSelf, LineCompose, LineClassB}

\* the lines of the texts whose repeated parsing is compared
WatchLines == {LineOpenA, LineBlockMember, LineMemberB, LineInherit}

\* the sequences of at most n elements of S
RECURSIVE SeqsUpTo(_, _)
SeqsUpTo(S, n) ==
    IF n = 0 THEN {<<>>}
    ELSE LET shorter == SeqsUpTo(S, n - 1)
         IN  shorter \cup {Append(q, x) : q \in {r \in shorter : Len(r) = n - 1}, x \in S}

\* the texts handed to the parser
Texts == {JoinLines(ls) : ls \in SeqsUpTo(Lines, MaxLines)}

WatchTexts == {JoinLines(ls) : ls \in SeqsUpTo(WatchLines, MaxLines - 1)}

\* the graph of no call
NoGraph == [nodes |-> <<>>, edges |-> <<>>, adjacencyList |-> EmptyMap,
            reverseAdjacencyList |-> EmptyMap]

\* what the last call returned
Returned == [classes |-> classes, relationships |-> relationships, graph |-> graph]

\* the effect of one call parseClassDiagram(text) on the parser's variables
ParseCall(text) ==
    LET run  == ExtractClassesRun(text)
        rels == ExtractRelationships(text)
    IN  /\ content' = text
        /\ classes' = run.classes
        /\ currentClass' = run.currentClass
        /\ inClassBlock' = run.inClassBlock
        /\ relationships' = rels
        /\ graph' = BuildGraphFromRelationships(run.classes, rels)

\* no call made yet
NotCalled ==
    /\ calls = 0
    /\ content = Null
    /\ classes = <<>>
    /\ relationships = <<>>
    /\ graph = NoGraph
    /\ currentClass = Null
    /\ inClassBlock = FALSE
    /\ first = [set |-> FALSE, text |-> Null, returned |-> Null]

\* the caller's next call of parseClassDiagram
Parse ==
    /\ calls < Len(inputs)
    /\ ParseCall(inputs[calls + 1])
    /\ calls' = calls + 1
    /\ first' = IF first.set THEN first
                ELSE [set |-> TRUE, text |-> inputs[calls + 1], returned |-> Returned']
    /\ UNCHANGED inputs
    /\ UNCHANGED <<ruleVars, metricVars, engineVars, legacyVars, widthVars, configVars, extractVars, cliVars, mainVars>>

\* one call, with any text
ParseInit == inputs \in {<<t>> : t \in Texts} /\ NotCalled

\* a text is parsed, then any text, then the first text again
IdemInit == inputs \in {<<w, o, w>> : w \in WatchTexts, o \in WatchTexts} /\ NotCalled

\* the largest number of lines of a text made of relationship lines
MaxRelationLines == 2

\* the kind of each of the five relationship operators
RelationKinds ==
    (OpInheritance :> "inheritance") @@ (OpComposition :> "composition") @@
    (OpAggregation :> "aggregation") @@ (OpAssociation :> "association") @@
    (OpDependency :> "dependency")

\* the relationship lines "Zoo op Cat", with or without spaces around the operator
\* and with or without a label " : has"
RelationItems ==
    [left : {<<"Z","o","o">>}, op : DOMAIN RelationKinds, right : {<<"C","a","t">>},
     space : {<<>>, <<" ">>}, label : {Null, <<"h","a","s">>}]

\* the text of a relationship line
Render(item) ==
    item.left \o item.space \o item.op \o item.space \o item.right
        \o (IF item.label = Null THEN <<>> ELSE <<" ",":"," ">> \o item.label)

\* 'Zoo "1" --> "n" Cat': an association with multiplicity
LineMultiplicity == <<"Z","o","o"," ","\"","1","\""," ","-","-",">"," ","\"","n","\""," ","C","a","t">>

RelationTexts ==
    {JoinLines(ls) : ls \in SeqsUpTo({Render(item) : item \in RelationItems} \cup {LineMultiplicity},
                                     MaxRelationLines) \ {<<>>}}

\* one call, with a text of relationship lines
RelationsInit == inputs \in {<<t>> : t \in RelationTexts} /\ NotCalled

\* the largest number of members a text declares in each style
MaxMembers == 2

\* the members declared in the block of class A: an optional visibility and a text
BlockItems == [visibility : {<<>>, <<"+">>}, text : {<<"m","(",")">>, <<"i","d",":"," ","i","n","t">>, <<"n">>}]

\* the members declared line by line after the block: a class name and a text
LineItems == [class : {<<"A">>, <<"B">>}, text : {<<"+","f","(","x",")">>, <<"y">>}]

\* "  +text": a member line of a block
RenderBlock(item) == <<" ", " ">> \o item.visibility \o item.text

\* "Class : text": a member line outside a block
RenderLine(item) == item.class \o <<" ",":"," ">> \o item.text

\* "class A {", the block members, "}", then the line members
MemberTexts ==
    {JoinLines(<<LineOpenA>> \o bs \o <<LineClose>> \o ls) :
        bs \in SeqsUpTo({RenderBlock(b) : b \in BlockItems}, MaxMembers),
        ls \in SeqsUpTo({RenderLine(l) : l \in LineItems}, MaxMembers)}

\* one call, with a text of member declarations
MembersInit == inputs \in {<<t>> : t \in MemberTexts} /\ NotCalled

\* the largest number of lines of a text made of inheritance lines
MaxChainLines == 3

\* the inheritance arrows of the hierarchy Animal, Mammal, Dog, Poodle
ChainItems ==
    {[parent |-> <<"A","n","i","m","a","l">>, child |-> <<"M","a","m","m","a","l">>],
     [parent |-> <<"M","a","m","m","a","l">>, child |-> <<"D","o","g">>],
     [parent |-> <<"D","o","g">>, child |-> <<"P","o","o","d","l","e">>]}

\* "Parent <|-- Child": one inheritance arrow on a line
RenderArrow(item) == item.parent \o <<" ","<","|","-","-"," ">> \o item.child

\* "Animal <|-- Mammal <|-- Dog <|-- Poodle": the arrows chained on one line
LineChained ==
    <<"A","n","i","m","a","l">> \o <<" ","<","|","-","-"," ">> \o <<"M","a","m","m","a","l">> \o <<" ","<","|","-","-"," ">>
        \o <<"D","o","g">> \o <<" ","<","|","-","-"," ">> \o <<"P","o","o","d","l","e">>

\* "classDiagram"
LineDiagram == <<"c","l","a","s","s","D","i","a","g","r","a","m">>

\* the chained line alone, or texts of the declaration line and one arrow per line
ChainTexts ==
    {LineChained, JoinLines(<<LineDiagram, LineChained>>)} \cup
    {JoinLines(ls) : ls \in SeqsUpTo({RenderArrow(item) : item \in ChainItems} \cup {LineDiagram},
                                     MaxChainLines) \ {<<>>}}

\* one call, with a text of inheritance lines
ChainInit == inputs \in {<<t>> : t \in ChainTexts} /\ NotCalled

\* the largest number of lines of a text with lines that match no pattern
MaxNoiseLines == 3

\* "%% A --> B": a comment
LineComment == <<"%","%"," ","A"," ","-","-",">"," ","B">>

\* "note for A": a statement the parser has no pattern for
LineNote == <<"n","o","t","e"," ","f","o","r"," ","A">>

\* the lines that match no pattern wherever they are: a comment, the declaration
\* line, a statement without pattern, an empty line
NoiseLines == {LineComment, LineDiagram, LineNote, <<>>}

\* texts of declarations, members, a relationship and lines that match no pattern
NoiseTexts ==
    {JoinLines(ls) :
        ls \in SeqsUpTo({LineOpenA, LineClose, LineBlockMember, LineMemberB, LineInherit}
                            \cup NoiseLines, MaxNoiseLines)}

\* one call, with a text that may hold lines that match no pattern
NoiseInit == inputs \in {<<t>> : t \in NoiseTexts} /\ NotCalled

\* the largest number of lines in the block of a class, and after it
MaxBlockLines == 2

\* the members declared in the block of class A: a method, two typed attributes
\* and an attribute with a visibility
BlockDeclarations ==
    {[visibility |-> <<"+">>, text |-> <<"m","(",")">>],
     [visibility |-> <<>>, text |-> <<"i","d",":"," ","i","n","t">>],
     [visibility |-> <<>>, text |-> <<"n"," ",":"," ","T">>],
     [visibility |-> <<"-">>, text |-> <<"x">>]}

\* the lines after the block that match no pattern
AfterLines == {LineNote, <<" "," ","y">>}

\* "class A {", the block members, "}", then lines that match no pattern
BlockTexts ==
    {JoinLines(<<LineOpenA>> \o bs \o <<LineClose>> \o ls) :
        bs \in SeqsUpTo({RenderBlock(b) : b \in BlockDeclarations}, MaxBlockLines),
        ls \in SeqsUpTo(AfterLines, MaxBlockLines)}

\* one call, with a text of one class block
BlockInit == inputs \in {<<t>> : t \in BlockTexts} /\ NotCalled

\* the parser is not used
ParseIdle == inputs = <<>> /\ NotCalled

-----------------------------------------------------------------------------
(* The metrics of the canonical graph.  The analyzers are not among the     *)
(* sources; the formula is the one of the Metrics snapshot.                 *)

\* graphDensity = edgeCount / (nodeCount x (nodeCount - 1)), 0 when nodeCount <= 1
calculateDensity(nodeCount, edgeCount) ==
    IF nodeCount <= 1 THEN <<0, 1>> ELSE <<edgeCount, nodeCount * (nodeCount - 1)>>

\* the Metrics snapshot of a graph with the given counts
MetricsOf(nodeCount, edgeCount) ==
    [nodeCount |-> nodeCount, edgeCount |-> edgeCount,
     graphDensity |-> calculateDensity(nodeCount, edgeCount)]

-----------------------------------------------------------------------------
(* The rule registry and the checks as a state machine: the checks of a     *)
(* plan are made one after the other on one diagram and its metrics.        *)

\* the registry, in registration order
ruleRegistry ==
    <<maxEdgesRule, maxNodesHighDensityRule, maxNodesLowDensityRule,
      cyclomaticComplexityRule, reservedWordsRule>>

\* the rule registered under a name
RuleNamed(name) == ruleRegistry[CHOOSE i \in 1..Len(ruleRegistry) : ruleRegistry[i].name = name]

\* rule.check(diagram, metrics, config)
RuleCheck(rule, diagram, metrics, config) ==
    CASE rule.name = "max-edges" -> MaxEdgesCheck(rule, diagram, metrics, config)
      [] rule.name = "max-nodes-high-density" -> MaxNodesHighDensityCheck(rule, diagram, metrics, config)
      [] rule.name = "max-nodes-low-density" -> MaxNodesLowDensityCheck(rule, diagram, metrics, config)
      [] rule.name = "cyclomatic-complexity" -> CyclomaticComplexityCheck(rule, diagram, metrics, config)
      [] rule.name = "reserved-words" -> ReservedWordsCheck(rule, diagram, metrics, config)

\* the largest number of pieces of a diagram handed to the checks
MaxPieces == 2

\* "A{x}"
PieceDecision == <<"A","{","x","}">>

\* "B1 {}"
PieceSpaced == <<"B","1"," ","{","}">>

\* "a{x}"
PieceLower == <<"a","{","x","}">>

\* "xC{"
PieceOpen == <<"x","C","{">>

Pieces == {PieceDecision, PieceSpaced, PieceLower, PieceOpen}

\* the decision nodes D1{Check Auth?} .. D12{Log Required?} of
\* tests/fixtures/complex-decisions.md, one to a line, each label shortened to "?"
ComplexDecisionsLines ==
    <<<<"D","1","{","?","}">>,
      <<"D","2","{","?","}">>,
      <<"D","3","{","?","}">>,
      <<"D","4","{","?","}">>,
      <<"D","5","{","?","}">>,
      <<"D","6","{","?","}">>,
      <<"D","7","{","?","}">>,
      <<"D","8","{","?","}">>,
      <<"D","9","{","?","}">>,
      <<"D","1","0","{","?","}">>,
      <<"D","1","1","{","?","}">>,
      <<"D","1","2","{","?","}">>>>

\* the same diagram with the decision nodes named d1 .. d12
LowerDecisionsLines ==
    <<<<"d","1","{","?","}">>,
      <<"d","2","{","?","}">>,
      <<"d","3","{","?","}">>,
      <<"d","4","{","?","}">>,
      <<"d","5","{","?","}">>,
      <<"d","6","{","?","}">>,
      <<"d","7","{","?","}">>,
      <<"d","8","{","?","}">>,
      <<"d","9","{","?","}">>,
      <<"d","1","0","{","?","}">>,
      <<"d","1","1","{","?","}">>,
      <<"d","1","2","{","?","}">>>>

\* the two diagrams as the checks receive them
FixtureDiagrams ==
    {[content |-> JoinLines(ComplexDecisionsLines), filePath |-> "complex-decisions.md", startLine |-> 5],
     [content |-> JoinLines(LowerDecisionsLines), filePath |-> "lower-decisions.md", startLine |-> 5]}

\* the diagrams handed to the checks
RuleDiagrams ==
    {[content |-> JoinLines(ps), filePath |-> "doc.md", startLine |-> 1] : ps \in SeqsUpTo(Pieces, MaxPieces)}
        \cup FixtureDiagrams

NodeCounts == {1, 51, 75, 101}

EdgeCounts == {0, 100, 2020, 5000}

\* the metrics handed to the checks
RuleMetrics == {MetricsOf(n, e) : n \in NodeCounts, e \in EdgeCounts}

\* the thresholds a configuration sets
Thresholds == {0, 2, 50, 100}

\* the density thresholds a configuration sets
DensityThresholds == {<<1, 10>>, <<1, 2>>}

\* the rule configurations: enabled, with or without threshold and densityThreshold
BaseConfig == [enabled |-> TRUE]

WithThreshold(c) == {c} \cup {c @@ ("threshold" :> t) : t \in Thresholds}

WithDensityThreshold(c) == {c} \cup {c @@ ("densityThreshold" :> d) : d \in DensityThresholds}

RuleConfigs == UNION {WithThreshold(c) : c \in WithDensityThreshold(BaseConfig)}

\* the configurations that differ from c in the threshold at most
SameButThreshold(c) == {d \in RuleConfigs : Has(c, "densityThreshold") = Has(d, "densityThreshold")
                                            /\ (Has(c, "densityThreshold") => c.densityThreshold = d.densityThreshold)}

ThresholdRules == {"max-edges", "max-nodes-high-density", "max-nodes-low-density", "cyclomatic-complexity"}

\* one rule checked under two configurations that differ in the threshold at most
ThresholdPlans ==
    UNION {{<<[rule |-> r, config |-> c], [rule |-> r, config |-> d]>> : d \in SameButThreshold(c)} :
              r \in ThresholdRules, c \in RuleConfigs}

\* both node-count rules checked, each under its own configuration
NodeCountPlans ==
    {<<[rule |-> "max-nodes-high-density", config |-> c],
       [rule |-> "max-nodes-low-density", config |-> d]>> : c \in RuleConfigs, d \in RuleConfigs}

\* no check made yet
NotChecked == results = <<>>

\* the next check of the plan: rule.check(diagram, metrics, config)
Check ==
    /\ Len(results) < Len(plan)
    /\ LET step == plan[Len(results) + 1]
       IN  results' = Append(results, RuleCheck(RuleNamed(step.rule), ruleDiagram, ruleMetrics, step.config))
    /\ UNCHANGED <<ruleDiagram, ruleMetrics, plan>>
    /\ UNCHANGED <<parseVars, metricVars, engineVars, legacyVars, widthVars, configVars, extractVars, cliVars, mainVars>>

RulesInit ==
    /\ ruleDiagram \in RuleDiagrams
    /\ ruleMetrics \in RuleMetrics
    /\ plan \in ThresholdPlans \cup NodeCountPlans
    /\ NotChecked

\* the rules are not used
RulesIdle ==
    /\ ruleDiagram = Null
    /\ ruleMetrics = Null
    /\ plan = <<>>
    /\ NotChecked

-----------------------------------------------------------------------------
(* The reserved-words rule as a state machine: one check of one diagram.    *)
(* The diagrams are made of flowchart lines: declarations, directives,      *)
(* labelled nodes and edges, and edges to an identifier under test.         *)

\* the largest number of lines of a diagram handed to the reserved-words check
MaxWordLines == 2

\* s.toUpperCase()
ToUpperCase(s) ==
    [i \in 1..Len(s) |->
        IF s[i] \in LowerCase
        THEN UpperLetters[CHOOSE k \in 1..Len(LowerLetters) : LowerLetters[k] = s[i]]
        ELSE s[i]]

\* every letter casing of a word
RECURSIVE Casings(_)
Casings(w) ==
    IF w = <<>> THEN {<<>>}
    ELSE {<<c>> \o r : c \in {ToLowerCase(<<w[1]>>)[1], ToUpperCase(<<w[1]>>)[1]},
                       r \in Casings(Tail(w))}

\* "A --> id": an edge from A to the node id
Uses(id) == <<"A"," ","-","-",">"," ">> \o id

\* "graph TD"
LineGraph == <<"g","r","a","p","h"," ","T","D">>

\* "style o1 f": a directive, the keyword followed by a space
LineStyle == <<"s","t","y","l","e"," ","o","1"," ","f">>

\* "click<TAB>B": a directive, the keyword followed by a tab
LineClickTab == <<"c","l","i","c","k","\t","B">>

\* "  end": the end of a subgraph
LineEnd == <<" "," ","e","n","d">>

\* "A --> B"
LineEdge == <<"A"," ","-","-",">"," ","B">>

\* "B[End]": a node with a label
LineLabel == <<"B","[","E","n","d","]">>

\* "A -->|x1| B": an edge with a label
LineEdgeLabel == <<"A"," ","-","-",">","|","x","1","|"," ","B">>

\* the identifiers tried against the o/x-plus-digits pattern
PatternIds == {<<"o","1">>, <<"X","2","2">>, <<"o","r","d","e","r","1">>, <<"b","o","x","2">>, <<"o","1","a">>, <<"x">>}

WordLines ==
    {LineGraph, LineStyle, LineClickTab, LineEnd, LineEdge, LineLabel, LineEdgeLabel}
        \cup {Uses(id) : id \in PatternIds}

\* the diagrams handed to the check: up to MaxWordLines lines, or one edge to a
\* reserved word in one of its casings
WordDiagrams ==
    {[content |-> JoinLines(ls), filePath |-> "doc.md", startLine |-> 1] :
        ls \in SeqsUpTo(WordLines, MaxWordLines) \cup
               {<<Uses(c)>> : c \in UNION {Casings(w) : w \in RESERVED_WORDS}}}

\* the configurations of the reserved-words rule: with or without a severity
WordConfigs == {BaseConfig, BaseConfig @@ ("severity" :> "error")}

WordsInit ==
    /\ ruleDiagram \in WordDiagrams
    /\ ruleMetrics = MetricsOf(1, 0)
    /\ plan \in {<<[rule |-> "reserved-words", config |-> c]>> : c \in WordConfigs}
    /\ NotChecked

-----------------------------------------------------------------------------
(* legacy-validator.js: analyzeGraphStructure and checkDiagramReadability.   *)
(* A warning is a record of the message's kind, the values interpolated     *)
(* into it and the advice sentences it ends with.                           *)

\* -+ from position k: the position after the run of dashes
RECURSIVE DashEnd(_, _)
DashEnd(t, k) == IF k <= Len(t) /\ t[k] = "-" THEN DashEnd(t, k + 1) ELSE k

\* (\w+)\s*--+>(?:\|[^|]+\|)?\s*(\w+) with the first group matching t[i..j-1]
ArrowAt(t, i, j) ==
    LET k     == SkipWs(t, j)
        d     == DashEnd(t, k)
        bar   == IF d < Len(t) /\ t[d + 1] = "|" THEN FirstAt(t, d + 2, "|") ELSE 0
        after == IF bar > d + 2 THEN bar + 1 ELSE d + 1
        n     == SkipWs(t, after)
        e     == WordEnd(t, n)
    IN  IF d - k >= 2 /\ d <= Len(t) /\ t[d] = ">" /\ e > n
        THEN [source |-> SubSeq(t, i, j - 1), target |-> SubSeq(t, n, e - 1)]
        ELSE Null

\* the greedy first group gives characters back: j runs down from the end of the word run
RECURSIVE ArrowTry(_, _, _)
ArrowTry(t, i, j) ==
    IF j <= i THEN Null
    ELSE LET r == ArrowAt(t, i, j)
         IN  IF r # Null THEN r ELSE ArrowTry(t, i, j - 1)

\* line.match(arrow pattern): the leftmost match, Null when there is none
RECURSIVE ArrowMatch(_, _)
ArrowMatch(t, i) ==
    IF i > Len(t) THEN Null
    ELSE LET r == IF t[i] \in WordChars THEN ArrowTry(t, i, WordEnd(t, i)) ELSE Null
         IN  IF r # Null THEN r ELSE ArrowMatch(t, i + 1)

\* the loop over the lines: the adjacency and inDegree maps after them
RECURSIVE ArrowLines(_, _)
ArrowLines(st, lines) ==
    LET Record(a) ==
            IF a = Null THEN st
            ELSE [adjacency |-> PushTo(st.adjacency, a.source, a.target),
                  inDegree  |-> [x \in DOMAIN st.inDegree \cup {a.source, a.target} |->
                                   (IF x \in DOMAIN st.inDegree THEN st.inDegree[x] ELSE 0)
                                       + (IF x = a.target THEN 1 ELSE 0)]]
    IN  IF lines = <<>> THEN st
        ELSE ArrowLines(Record(ArrowMatch(Head(lines), 1)), Tail(lines))

analyzeGraphStructure(lines) ==
    LET Measure(st) ==
            LET widths           == {Len(st.adjacency[x]) : x \in DOMAIN st.adjacency}
                maxBranchWidth   == IF widths = {} THEN 0
                                    ELSE CHOOSE w \in widths : \A v \in widths : v <= w
                spineLength      == Cardinality({x \in DOMAIN st.adjacency :
                                                    Len(st.adjacency[x]) <= 2})
                hasReconvergence == \E x \in DOMAIN st.inDegree : st.inDegree[x] > 1
            IN  [isLinearProgression |-> spineLength >= 5 /\ maxBranchWidth <= 5 /\ hasReconvergence,
                 isWideTree          |-> maxBranchWidth > 8 /\ ~hasReconvergence,
                 maxBranchWidth      |-> maxBranchWidth,
                 spineLength         |-> spineLength]
    IN  Measure(ArrowLines([adjacency |-> EmptyMap, inDegree |-> EmptyMap], lines))

\* /graph\s+(c1|c2)|flowchart\s+(c1|c2)/i.test(line) for the direction codes given
DirectionTest(line, codes) ==
    LET s == ToLowerCase(line)
    IN  \E i \in 1..Len(s) : \E kw \in {<<"g","r","a","p","h">>, <<"f","l","o","w","c","h","a","r","t">>} :
            /\ LitAt(s, i, kw)
            /\ LET n == SkipWs(s, i + Len(kw))
               IN  n > i + Len(kw) /\ \E c \in codes : LitAt(s, n, ToLowerCase(c))

\* the start of the run of word characters that ends at position k
RECURSIVE RunStart(_, _)
RunStart(s, k) == IF k > 1 /\ s[k - 1] \in WordChars THEN RunStart(s, k - 1) ELSE k

\* new Set(diagram.match(/\w+[\[\{\(]/g).map(strip the bracket)): every opening bracket
\* that follows a word character ends one match, which starts where the run of
\* word characters starts
NodeNames(diagram) ==
    {SubSeq(diagram, RunStart(diagram, i - 1), i - 1) :
        i \in {i \in 2..Len(diagram) : diagram[i] \in {"[", "{", "("} /\ diagram[i - 1] \in WordChars}}

AdviceUseLR == "Consider using 'graph LR' for better readability"

AdviceSplit == "or split into multiple diagrams"

AdviceSimplify == "Consider simplifying by removing detail nodes or using subgraphs instead of converting to LR"

AdviceBreakUp == "Consider breaking into focused sub-diagrams or using subgraphs for organization"

checkDiagramReadability(diagram) ==
    LET Warn(isVertical, isHorizontal, nodeCount, structure) ==
            LET layout   == IF isVertical /\ structure.isWideTree
                            THEN <<[kind |-> "Wide tree diagram",
                                    values |-> <<structure.maxBranchWidth>>,
                                    advice |-> <<AdviceUseLR, AdviceSplit>>]>>
                            ELSE IF isVertical /\ structure.isLinearProgression
                            THEN <<[kind |-> "Linear progression diagram with branches",
                                    values |-> <<structure.spineLength, structure.maxBranchWidth>>,
                                    advice |-> <<AdviceSimplify>>]>>
                            ELSE <<>>
                total    == IF nodeCount > 20
                            THEN <<[kind |-> "Complex diagram", values |-> <<nodeCount>>,
                                    advice |-> <<AdviceBreakUp>>]>>
                            ELSE <<>>
                warnings == layout \o total
            IN  IF ~isVertical /\ ~isHorizontal THEN [readable |-> TRUE, warnings |-> <<>>]
                ELSE [readable |-> Len(warnings) = 0, warnings |-> warnings]
        Trimmed(raw) == [i \in 1..Len(raw) |-> Trim(raw[i])]
        Judge(lines) ==
            Warn(DirectionTest(lines[1], {<<"T","D">>, <<"T","B">>}),
                 DirectionTest(lines[1], {<<"L","R">>}),
                 Cardinality(NodeNames(diagram)),
                 analyzeGraphStructure(lines))
    IN  Judge(Trimmed(SplitLines(diagram)))

-----------------------------------------------------------------------------
(* legacy-validator.js: extractMermaidDiagrams.  The file is its content;   *)
(* a diagram is a record of its line and its content.                       *)

\* the grave accent of a code fence: a TLA+ string cannot hold that character, the
\* apostrophe stands for it
Tick == "'"

FenceOpen == <<Tick,Tick,Tick,"m","e","r","m","a","i","d">>

FenceClose == <<Tick,Tick,Tick>>

\* the locals of extractMermaidDiagrams before the loop
ExtractStart == [diagrams |-> <<>>, inMermaid |-> FALSE, startLine |-> 0, diagramLines |-> <<>>]

\* startLine = i + 1, i the index of the fence line counted from 0
StartLineOf(i) == i + 1

\* the body of a loop that takes an opening fence inside a block for a line of it
ExtractLineNested(st, line, i) ==
    IF ~st.inMermaid /\ Trim(line) = FenceOpen
    THEN [st EXCEPT !.inMermaid = TRUE, !.startLine = StartLineOf(i), !.diagramLines = <<>>]
    ELSE IF st.inMermaid /\ Trim(line) = FenceClose
    THEN [st EXCEPT !.diagrams = Append(@, [line |-> st.startLine,
                                            content |-> JoinLines(st.diagramLines)]),
                    !.inMermaid = FALSE]
    ELSE IF st.inMermaid
    THEN [st EXCEPT !.diagramLines = Append(@, line)]
    ELSE st

\* the body of the loop for lines[i], i counted from 0
ExtractLine(st, line, i) ==
    IF Trim(line) = FenceOpen
    THEN [st EXCEPT !.inMermaid = TRUE, !.startLine = StartLineOf(i), !.diagramLines = <<>>]
    ELSE IF st.inMermaid /\ Trim(line) = FenceClose
    THEN [st EXCEPT !.diagrams = Append(@, [line |-> st.startLine,
                                            content |-> JoinLines(st.diagramLines)]),
                    !.inMermaid = FALSE]
    ELSE IF st.inMermaid
    THEN [st EXCEPT !.diagramLines = Append(@, line)]
    ELSE st

\* the loop from index i on
RECURSIVE ExtractLines(_, _, _)
ExtractLines(st, lines, i) ==
    IF i >= Len(lines) THEN st
    ELSE ExtractLines(ExtractLine(st, lines[i + 1], i), lines, i + 1)

extractMermaidDiagrams(fileContent) ==
    ExtractLines(ExtractStart, SplitLines(fileContent), 0).diagrams

-----------------------------------------------------------------------------
(* The extraction as a state machine: extractMermaidDiagrams is called on   *)
(* one markdown file made of fences, diagram lines and other lines.         *)

\* the largest number of lines of a markdown file
MaxDocLines == 5

\* an opening fence (indented), a closing fence, a line of text or of a diagram,
\* the opening fence of another language
DocLines == {<<" ",Tick,Tick,Tick,"m","e","r","m","a","i","d">>, FenceClose, <<"A","-","-",">","B">>, <<Tick,Tick,Tick,"j","s">>}

Documents == {JoinLines(ls) : ls \in SeqsUpTo(DocLines, MaxDocLines)}

\* no call made yet
NotExtracted == extracted = <<>>

\* extractMermaidDiagrams(filePath)
Extract ==
    /\ NotExtracted
    /\ extracted' = <<extractMermaidDiagrams(markdown)>>
    /\ UNCHANGED markdown
    /\ UNCHANGED <<parseVars, ruleVars, metricVars, engineVars, legacyVars, widthVars, configVars, cliVars, mainVars>>

ExtractInit == markdown \in Documents /\ NotExtracted

\* the extraction is not used
ExtractIdle == markdown = Null /\ NotExtracted

-----------------------------------------------------------------------------
(* The legacy validator as a state machine: checkDiagramReadability is      *)
(* called on one flowchart: a declaration line, a fan of edges from A and a *)
(* tail of further lines.                                                   *)

\* the largest number of edges that leave node A
MaxBranches == 9

HeaderLines == {<<"g","r","a","p","h"," ","T","D">>, <<"f","l","o","w","c","h","a","r","t"," ","T","B">>, <<"g","r","a","p","h"," ","L","R">>, <<"s","t","a","t","e","D","i","a","g","r","a","m">>}

\* the digits of a number below 100
Numeral(n) ==
    LET digit(d) == <<"0","1","2","3","4","5","6","7","8","9">>[d + 1]
    IN  IF n < 10 THEN <<digit(n)>> ELSE <<digit(n \div 10), digit(n % 10)>>

\* "A-->B1", .., "A-->Bn"
Fan(n) == [i \in 1..n |-> <<"A","-","-",">","B">> \o Numeral(i)]

\* the lines after the fan: none, a chain, a chain that reconverges, labelled nodes
TailLines ==
    {<<>>,
     <<<<"B","1","-","-",">","C">>>>,
     <<<<"B","1","-","-",">","C">>, <<"B","2"," ","-","-",">","|","n","o","|"," ","C">>>>,
     <<<<"B","1","-","-",">","C">>, <<"B","2","-","-",">","C">>, <<"C","-","-",">","D">>, <<"D"," ","-","-",">"," ","E">>>>,
     <<<<"C","[","x","]"," ","-","-",">"," ","D","{","y","}">>>>}

LegacyDiagrams ==
    {JoinLines(<<h>> \o Fan(n) \o tail) : h \in HeaderLines, n \in 0..MaxBranches, tail \in TailLines}

\* no call made yet
NotAsked == readability = <<>>

\* checkDiagramReadability(diagram)
CheckReadability ==
    /\ NotAsked
    /\ readability' = <<checkDiagramReadability(legacyDiagram)>>
    /\ UNCHANGED legacyDiagram
    /\ UNCHANGED <<parseVars, ruleVars, metricVars, engineVars, widthVars, configVars, extractVars, cliVars, mainVars>>

LegacyInit == legacyDiagram \in LegacyDiagrams /\ NotAsked

\* the legacy validator is not used
LegacyIdle == legacyDiagram = Null /\ NotAsked

-----------------------------------------------------------------------------
(* The width rule: the built-in viewport profiles, the width estimate and   *)
(* the three-tier ladder.  The rule itself is not among the sources: the    *)
(* estimate is the one of specs/001, the ladder the one of the resolved     *)
(* viewport profile (info < warning < error, a tier is reached when the     *)
(* estimate exceeds it).                                                    *)

\* profiles whose warning tier is not above the info tier and whose maxima are
\* not the error tiers
builtInViewportProfilesFlat ==
    [name \in {"default", "mkdocs", "docusaurus", "github", "mobile"} |->
        [name |-> name, maxWidth |-> 1200, maxHeight |-> 1500,
         widthThresholds |-> [info |-> 800, warning |-> 800, error |-> 1000],
         heightThresholds |-> [info |-> 1200, warning |-> 1000, error |-> 1800]]]

\* the default profile with every width tier 1000 px higher
builtInViewportProfilesWide ==
    [name \in {"default", "mkdocs", "docusaurus", "github", "mobile"} |->
        [name |-> name, maxWidth |-> 3500, maxHeight |-> 2000,
         widthThresholds |-> [info |-> 2500, warning |-> 3000, error |-> 3500],
         heightThresholds |-> [info |-> 800, warning |-> 1200, error |-> 2000]]]

builtInViewportProfiles ==
    ("default" :>
        [name |-> "default", maxWidth |-> 2500, maxHeight |-> 2000,
         widthThresholds |-> [info |-> 1500, warning |-> 2000, error |-> 2500],
         heightThresholds |-> [info |-> 800, warning |-> 1200, error |-> 2000]]) @@
    ("mkdocs" :>
        [name |-> "mkdocs", maxWidth |-> 800, maxHeight |-> 1500,
         widthThresholds |-> [info |-> 600, warning |-> 700, error |-> 800],
         heightThresholds |-> [info |-> 1000, warning |-> 1200, error |-> 1500]]) @@
    ("docusaurus" :>
        [name |-> "docusaurus", maxWidth |-> 900, maxHeight |-> 1500,
         widthThresholds |-> [info |-> 700, warning |-> 800, error |-> 900],
         heightThresholds |-> [info |-> 1000, warning |-> 1200, error |-> 1500]]) @@
    ("github" :>
        [name |-> "github", maxWidth |-> 1000, maxHeight |-> 1800,
         widthThresholds |-> [info |-> 800, warning |-> 900, error |-> 1000],
         heightThresholds |-> [info |-> 1200, warning |-> 1500, error |-> 1800]]) @@
    ("mobile" :>
        [name |-> "mobile", maxWidth |-> 400, maxHeight |-> 800,
         widthThresholds |-> [info |-> 300, warning |-> 350, error |-> 400],
         heightThresholds |-> [info |-> 600, warning |-> 700, error |-> 800]])

getBuiltInProfile(name) == builtInViewportProfiles[name]

getDefaultProfile == builtInViewportProfiles["default"]

CHAR_WIDTH == 8

NODE_SPACING == 50

estimateWidth(layout, metrics, labelMetrics) ==
    IF layout \in {"LR", "RL"}
    THEN metrics.nodeCount * labelMetrics.avgLength * CHAR_WIDTH + metrics.nodeCount * NODE_SPACING
    ELSE metrics.maxBranchWidth * labelMetrics.avgLength * CHAR_WIDTH
             + metrics.maxBranchWidth * NODE_SPACING

\* the tier of the ladder an estimate reaches, "none" below the info tier
TierOf(estimate, thresholds) ==
    IF estimate > thresholds.error THEN "error"
    ELSE IF estimate > thresholds.warning THEN "warning"
    ELSE IF estimate > thresholds.info THEN "info"
    ELSE "none"

\* the width rule's check under a viewport profile: the estimate and the issue
WidthCheck(case) ==
    LET estimate == estimateWidth(case.layout, case.metrics, case.labelMetrics)
        tier     == TierOf(estimate, getBuiltInProfile(case.profile).widthThresholds)
    IN  [estimatedWidth |-> estimate,
         issue |-> IF tier = "none" THEN <<>>
                   ELSE <<[rule |-> "horizontal-width-readability", severity |-> tier]>>]

\* the largest node count of a diagram handed to the width rule
MaxWidthNodes == 10

WidthCases ==
    [layout : {"LR", "RL", "TD", "TB"},
     metrics : [nodeCount : 1..MaxWidthNodes, maxBranchWidth : {1, 3}],
     labelMetrics : [avgLength : {5, 15, 30}],
     profile : DOMAIN builtInViewportProfiles]

\* no check made yet
NotMeasured == widthResults = <<>>

\* the width rule checks the diagram
CheckWidth ==
    /\ NotMeasured
    /\ widthResults' = <<WidthCheck(widthCase)>>
    /\ UNCHANGED widthCase
    /\ UNCHANGED <<parseVars, ruleVars, metricVars, engineVars, legacyVars, configVars, extractVars, cliVars, mainVars>>

WidthInit == widthCase \in WidthCases /\ NotMeasured

\* the width rule is not used
WidthIdle == widthCase = Null /\ NotMeasured

-----------------------------------------------------------------------------
(* The metrics engine as a state machine: the Metrics snapshot of a         *)
(* canonical graph is computed, then its longest path by a depth-first      *)
(* search with a memo per node and the set of the nodes on the current      *)
(* path.  The recursion is a stack of frames; each step is one call, one    *)
(* loop iteration or one return.                                            *)

\* the largest number of edges of a canonical graph
MaxEdges == 3

\* the node identifiers of the canonical graphs, in declaration order
NodeIds == <<<<"A">>, <<"B">>, <<"C">>>>

\* the class map that declares the first k identifiers
Declared(k) == [i \in 1..k |-> NewClassNode(NodeIds[i])]

\* the relationships between the first k identifiers
RelationshipsAmong(k) ==
    {[from |-> NodeIds[i], to |-> NodeIds[j], type |-> "association", label |-> Null] :
        i \in 1..k, j \in 1..k}

\* the canonical graphs: every edge joins two nodes, the edge list is a multiset
\* and self-edges are permitted
CanonGraphs ==
    UNION {{BuildGraphFromRelationships(Declared(k), rels) :
               rels \in SeqsUpTo(RelationshipsAmong(k), MaxEdges)} : k \in 0..Len(NodeIds)}

\* the Metrics snapshot of a graph
calculateMetrics(g) == MetricsOf(Len(g.nodes), Len(g.edges))

\* adjacencyList.get(node) || []
Children(g, node) == IF node \in DOMAIN g.adjacencyList THEN g.adjacencyList[node] ELSE <<>>

\* the edge to child is a back-edge: child is on the current path
OnCurrentPathNever(child) == FALSE

OnCurrentPath(child) == child \in visiting

\* the deepest recursion of the search: no node is on the current path twice
MaxStack == Len(NodeIds) + 1

\* the frame of a call dfs(node)
Frame(node) == [node |-> node, next |-> 1, best |-> 0]

\* the innermost frame
Top == stack[Len(stack)]

\* the stack with its innermost frame replaced
WithTop(f) == [stack EXCEPT ![Len(stack)] = f]

\* the metrics step of the pipeline
ComputeMetrics ==
    /\ phase = "metrics"
    /\ graphMetrics' = calculateMetrics(canon)
    /\ phase' = "path"
    /\ UNCHANGED <<canon, memo, visiting, stack, nextRoot, longest>>
    /\ UNCHANGED <<parseVars, ruleVars, engineVars, legacyVars, widthVars, configVars, extractVars, cliVars, mainVars>>

\* the outer loop calls dfs on the next node of the node list
CallRoot ==
    /\ phase = "path" /\ stack = <<>> /\ nextRoot <= Len(canon.nodes)
    /\ LET node == canon.nodes[nextRoot]
       IN  IF node \in DOMAIN memo
           THEN /\ longest' = Max(longest, memo[node])
                /\ nextRoot' = nextRoot + 1
                /\ UNCHANGED <<stack, visiting>>
           ELSE /\ stack' = <<Frame(node)>>
                /\ visiting' = visiting \cup {node}
                /\ UNCHANGED <<longest, nextRoot>>
    /\ UNCHANGED <<canon, graphMetrics, memo, phase>>
    /\ UNCHANGED <<parseVars, ruleVars, engineVars, legacyVars, widthVars, configVars, extractVars, cliVars, mainVars>>

\* one iteration of dfs's loop over the children of the innermost frame's node
VisitChild ==
    /\ phase = "path" /\ stack # <<>>
    /\ Top.next <= Len(Children(canon, Top.node))
    /\ LET child == Children(canon, Top.node)[Top.next]
       IN  IF OnCurrentPath(child)
           THEN /\ stack' = WithTop([Top EXCEPT !.next = @ + 1])
                /\ UNCHANGED visiting
           ELSE IF child \in DOMAIN memo
           THEN /\ stack' = WithTop([Top EXCEPT !.next = @ + 1, !.best = Max(@, 1 + memo[child])])
                /\ UNCHANGED visiting
           ELSE /\ Len(stack) < MaxStack
                /\ stack' = Append(stack, Frame(child))
                /\ visiting' = visiting \cup {child}
    /\ UNCHANGED <<canon, graphMetrics, memo, nextRoot, longest, phase>>
    /\ UNCHANGED <<parseVars, ruleVars, engineVars, legacyVars, widthVars, configVars, extractVars, cliVars, mainVars>>

\* dfs returns from the innermost frame: the node is memoized and leaves the path
Return ==
    /\ phase = "path" /\ stack # <<>>
    /\ Top.next > Len(Children(canon, Top.node))
    /\ memo' = memo @@ (Top.node :> Top.best)
    /\ visiting' = visiting \ {Top.node}
    /\ IF Len(stack) = 1
       THEN /\ stack' = <<>>
            /\ longest' = Max(longest, Top.best)
            /\ nextRoot' = nextRoot + 1
       ELSE /\ LET caller == stack[Len(stack) - 1]
               IN  stack' = Append(SubSeq(stack, 1, Len(stack) - 2),
                                   [caller EXCEPT !.next = @ + 1, !.best = Max(@, 1 + Top.best)])
            /\ UNCHANGED <<longest, nextRoot>>
    /\ UNCHANGED <<canon, graphMetrics, phase>>
    /\ UNCHANGED <<parseVars, ruleVars, engineVars, legacyVars, widthVars, configVars, extractVars, cliVars, mainVars>>

\* the outer loop is over: longest is returned
Finish ==
    /\ phase = "path" /\ stack = <<>> /\ nextRoot > Len(canon.nodes)
    /\ phase' = "done"
    /\ UNCHANGED <<canon, graphMetrics, memo, visiting, stack, nextRoot, longest>>
    /\ UNCHANGED <<parseVars, ruleVars, engineVars, legacyVars, widthVars, configVars, extractVars, cliVars, mainVars>>

\* nothing computed yet
NotComputed ==
    /\ graphMetrics = Null
    /\ memo = EmptyMap
    /\ visiting = {}
    /\ stack = <<>>
    /\ nextRoot = 1
    /\ longest = 0

MetricsInit == canon \in CanonGraphs /\ phase = "metrics" /\ NotComputed

\* the metrics engine is not used
MetricsIdle == canon = NoGraph /\ phase = "idle" /\ NotComputed

MetricsNext == ComputeMetrics \/ CallRoot \/ VisitChild \/ Return \/ Finish

-----------------------------------------------------------------------------
(* The rule engine as a state machine.  The engine (runRules and            *)
(* analyzeDiagramFileWithRules) is not among the sources: it is modelled    *)
(* from its contract, every enabled rule evaluated against every diagram,   *)
(* in registry order, a fault caught per rule.  The checks of the diagrams  *)
(* of a file may be interleaved; the command-line action reports when all   *)
(* are made.                                                                *)

\* the largest number of diagrams of a file
MaxDiagrams == 2

\* "A{x}" and "B1 {}" on two lines, in a dense graph of 51 nodes
DiagramDecisions ==
    [diagram |-> [content |-> JoinLines(<<PieceDecision, PieceSpaced>>),
                  filePath |-> "doc.md", startLine |-> 3],
     metrics |-> MetricsOf(51, 2020)]

\* "end --> o1" and "x2 --> end" on two lines, in a sparse graph of 101 nodes
DiagramReserved ==
    [diagram |-> [content |-> JoinLines(<< <<"e","n","d"," ","-","-",">"," ","o","1">>,
                                           <<"x","2"," ","-","-",">"," ","e","n","d">> >>),
                  filePath |-> "doc.md", startLine |-> 20],
     metrics |-> MetricsOf(101, 101)]

Diagrams == {DiagramDecisions, DiagramReserved}

\* the files: at least one diagram
Files == SeqsUpTo(Diagrams, MaxDiagrams) \ {<<>>}

RuleNames == {ruleRegistry[i].name : i \in 1..Len(ruleRegistry)}

\* the rules a configuration may disable
MayBeOff == {"max-edges", "max-nodes-low-density"}

\* the resolved configurations: at most one rule disabled, the thresholds all
\* left to the defaults or all set to 0
ResolvedConfigs ==
    {[n \in RuleNames |-> IF n \in off THEN [enabled |-> FALSE] ELSE c] :
        off \in {{}} \cup {{n} : n \in MayBeOff},
        c \in {BaseConfig, BaseConfig @@ ("threshold" :> 0)}}

\* the rules whose check may throw: the first, one in the middle and the last
MayThrow == {"max-edges", "cyclomatic-complexity", "reserved-words"}

\* what evaluating a rule whose check throws yields
Thrown == [thrown |-> "Error"]

\* the outcome of rule.check on an entry of the file
Outcome(rule, entry, config, bad) ==
    IF rule.name \in bad THEN Thrown
    ELSE RuleCheck(rule, entry.diagram, entry.metrics, config[rule.name])

\* the rule object after its check: a check assigns to a field of a rule that caches
\* the edge count
RuleAfterCheckCaching(this, diagram, metrics, config) ==
    ("defaultThreshold" :> metrics.edgeCount) @@ this

\* the rule object after its check: no check assigns to a field of this
RuleAfterCheck(this, diagram, metrics, config) == this

\* issues.push(issue)
Collect(list, issue) == Append(list, issue)

\* the engine's variables as a record
Engine ==
    [pos |-> pos, issues |-> issues, logged |-> logged, aborted |-> aborted, exitCode |-> exitCode]

\* the exception of a check reaches the catch of the command-line action:
\* the error is printed and the process exits with 1
Uncaught(eng, d, name) == [eng EXCEPT !.aborted = TRUE, !.exitCode = 1]

\* the exception of a check is caught for that rule: it is handed to the reporter
\* and the loop goes on with the next rule
Caught(eng, d, name) ==
    [eng EXCEPT !.logged = Append(@, <<d, name>>), !.pos[d] = @ + 1]

\* one iteration of the engine's loop over the registry, for diagram d
EvaluateRule(d) ==
    /\ exitCode = -1
    /\ pos[d] <= Len(registry)
    /\ LET rule    == registry[pos[d]]
           config  == resolvedConfig[rule.name]
           outcome == Outcome(rule, file[d], resolvedConfig, faulty)
           after   == IF ~config.enabled THEN [Engine EXCEPT !.pos[d] = @ + 1]
                      ELSE IF outcome = Thrown THEN Caught(Engine, d, rule.name)
                      ELSE IF outcome = Null THEN [Engine EXCEPT !.pos[d] = @ + 1]
                      ELSE [Engine EXCEPT !.pos[d] = @ + 1,
                                          !.issues[d] = Collect(@, outcome)]
       IN  /\ pos' = after.pos
           /\ issues' = after.issues
           /\ logged' = after.logged
           /\ aborted' = after.aborted
           /\ exitCode' = after.exitCode
           /\ registry' = IF config.enabled /\ outcome # Thrown
                          THEN [registry EXCEPT ![pos[d]] =
                                   RuleAfterCheck(rule, file[d].diagram, file[d].metrics, config)]
                          ELSE registry
    /\ UNCHANGED <<file, resolvedConfig, faulty>>
    /\ UNCHANGED <<parseVars, ruleVars, metricVars, legacyVars, widthVars, configVars, extractVars, cliVars, mainVars>>

\* every rule is evaluated for every diagram
Analysed == \A d \in 1..Len(file) : pos[d] > Len(registry)

\* some issue of the results has severity error
HasErrors == \E d \in 1..Len(file) : \E i \in 1..Len(issues[d]) : issues[d][i].severity = "error"

\* the command-line action prints the results and sets the exit code
Report ==
    /\ exitCode = -1
    /\ Analysed
    /\ exitCode' = IF HasErrors THEN 1 ELSE 0
    /\ UNCHANGED <<registry, file, resolvedConfig, faulty, pos, issues, logged, aborted>>
    /\ UNCHANGED <<parseVars, ruleVars, metricVars, legacyVars, widthVars, configVars, extractVars, cliVars, mainVars>>

EngineInit ==
    /\ registry = ruleRegistry
    /\ file \in Files
    /\ resolvedConfig \in ResolvedConfigs
    /\ faulty \in {{}} \cup {{n} : n \in MayThrow}
    /\ pos = [d \in 1..Len(file) |-> 1]
    /\ issues = [d \in 1..Len(file) |-> <<>>]
    /\ logged = <<>>
    /\ aborted = FALSE
    /\ exitCode = -1

\* the engine is not used
EngineIdle ==
    /\ registry = <<>>
    /\ file = <<>>
    /\ resolvedConfig = Null
    /\ faulty = {}
    /\ pos = <<>>
    /\ issues = <<>>
    /\ logged = <<>>
    /\ aborted = FALSE
    /\ exitCode = -1

EngineNext == (\E d \in 1..Len(file) : EvaluateRule(d)) \/ Report

-----------------------------------------------------------------------------
(* The configuration loader.  The loader and the defaults (config/loader.ts, *)
(* config/defaults.ts) are not among the sources; they are modelled from     *)
(* their unit tests: the defaults of the four threshold rules, and a load    *)
(* that lays the rule entries of the file over the defaults.                 *)

defaultConfig ==
    [rules |->
        ("max-edges" :> [enabled |-> TRUE, severity |-> "error", threshold |-> 100]) @@
        ("max-nodes-high-density" :> [enabled |-> TRUE, severity |-> "warning", threshold |-> 50]) @@
        ("max-nodes-low-density" :> [enabled |-> TRUE, severity |-> "warning", threshold |-> 100]) @@
        ("cyclomatic-complexity" :> [enabled |-> TRUE, severity |-> "warning", threshold |-> 10])]

\* the rule entry of the file replaces the default entry
MergeRuleWhole(default, custom) == custom

\* { ...default, ...custom }: the fields of the file's entry over the default ones
MergeRule(default, custom) == custom @@ default

\* the rules of the merged configuration
MergeRules(defaults, custom) ==
    [r \in DOMAIN defaults \cup DOMAIN custom |->
        IF r \notin DOMAIN custom THEN defaults[r]
        ELSE IF r \notin DOMAIN defaults THEN custom[r]
        ELSE MergeRule(defaults[r], custom[r])]

\* loadConfig(): the defaults when there is no configuration file
loadConfig(found) ==
    IF found = Null THEN defaultConfig
    ELSE [rules |-> MergeRules(defaultConfig.rules, found.rules)]

\* the largest number of rules a configuration file mentions
MaxFileRules == 2

\* a field left out, or set to one of the values
Optional(field, values) == {EmptyMap} \cup {field :> v : v \in values}

\* what a file may say about a rule: any of the three fields, or none
PartialRuleConfigs ==
    {e @@ s @@ t : e \in Optional("enabled", {FALSE}),
                   s \in Optional("severity", {"warning", "error"}),
                   t \in Optional("threshold", {50, 75})}

\* the configuration files: no file, or entries for some of the rules
ConfigFiles ==
    {Null} \cup
    {[rules |-> rules] :
        rules \in UNION {[S -> PartialRuleConfigs] :
                            S \in {S \in SUBSET DOMAIN defaultConfig.rules :
                                      Cardinality(S) <= MaxFileRules}}}

\* loadConfig not called yet
NotLoaded == loadedConfig = Null

\* config = await loadConfig()
LoadConfig ==
    /\ NotLoaded
    /\ loadedConfig' = loadConfig(userConfig)
    /\ UNCHANGED userConfig
    /\ UNCHANGED <<parseVars, ruleVars, metricVars, engineVars, legacyVars, widthVars, extractVars, cliVars, mainVars>>

ConfigInit == userConfig \in ConfigFiles /\ NotLoaded

\* the loader is not used
ConfigIdle == userConfig = Null /\ NotLoaded

-----------------------------------------------------------------------------
(* cli.ts: the action of the command.  analyzeDiagramFileWithRules either   *)
(* throws or returns the results, one per diagram, each with its issues;    *)
(* the action displays them one after the other and exits.                  *)

\* the largest number of diagrams of the analysed file
MaxResults == 2

Severities == {"error", "warning", "info"}

\* a result: the issues of a diagram, given by their severities (no issue and
\* an absent issue list are the empty sequence)
ResultsOfDiagram == {[issues |-> s] : s \in SeqsUpTo(Severities, 2)}

\* the analysis throws, or returns the results of the file's diagrams
Analyses ==
    {[thrown |-> TRUE, results |-> <<>>]} \cup
    {[thrown |-> FALSE, results |-> rs] : rs \in SeqsUpTo(ResultsOfDiagram, MaxResults)}

\* the issues are displayed whatever the options
DisplayedAlways(options, found) == found # Null /\ Len(found) > 0

\* options.rules && issues && issues.length > 0
Displayed(options, found) == options.rules /\ found # Null /\ Len(found) > 0

\* some issue of the list has the severity
HasSeverity(found, severity) == \E i \in 1..Len(found) : found[i] = severity

\* const results = analyzeDiagramFileWithRules(file), and the return when there
\* is no diagram; an exception is caught by the action and the process exits with 1
Analyse ==
    /\ cliPhase = "start"
    /\ IF cliAnalysis.thrown
       THEN cliPhase' = "exited" /\ cliExit' = 1
       ELSE IF Len(cliAnalysis.results) = 0
       THEN cliPhase' = "exited" /\ cliExit' = 0
       ELSE cliPhase' = "show" /\ UNCHANGED cliExit
    /\ UNCHANGED <<cliOptions, cliAnalysis, shown, hasErrors, hasWarnings>>
    /\ UNCHANGED <<parseVars, ruleVars, metricVars, engineVars, legacyVars, widthVars, configVars,
                   extractVars, mainVars>>

\* one call of the callback of results.forEach
ShowResult ==
    /\ cliPhase = "show"
    /\ shown < Len(cliAnalysis.results)
    /\ LET found == cliAnalysis.results[shown + 1].issues
       IN  IF Displayed(cliOptions, found)
           THEN /\ hasErrors' = (hasErrors \/ HasSeverity(found, "error"))
                /\ hasWarnings' = (hasWarnings \/ HasSeverity(found, "warning"))
           ELSE UNCHANGED <<hasErrors, hasWarnings>>
    /\ shown' = shown + 1
    /\ UNCHANGED <<cliOptions, cliAnalysis, cliPhase, cliExit>>
    /\ UNCHANGED <<parseVars, ruleVars, metricVars, engineVars, legacyVars, widthVars, configVars,
                   extractVars, mainVars>>

\* the end of the action: process.exit(1) when hasErrors, process.exit(0) when
\* hasWarnings, and the process ends with 0 when the action returns
Exit ==
    /\ cliPhase = "show"
    /\ shown = Len(cliAnalysis.results)
    /\ cliExit' = (IF hasErrors THEN 1 ELSE 0)
    /\ cliPhase' = "exited"
    /\ UNCHANGED <<cliOptions, cliAnalysis, shown, hasErrors, hasWarnings>>
    /\ UNCHANGED <<parseVars, ruleVars, metricVars, engineVars, legacyVars, widthVars, configVars,
                   extractVars, mainVars>>

\* the action has not started
NotStarted == cliPhase = "start" /\ shown = 0 /\ hasErrors = FALSE /\ hasWarnings = FALSE /\ cliExit = -1

CliInit == cliOptions \in [rules : BOOLEAN] /\ cliAnalysis \in Analyses /\ NotStarted

\* the command is not used
CliIdle ==
    /\ cliOptions = Null /\ cliAnalysis = Null
    /\ cliPhase = "idle" /\ shown = 0 /\ hasErrors = FALSE /\ hasWarnings = FALSE /\ cliExit = -1

-----------------------------------------------------------------------------
(* legacy-validator.js: validateDiagram and main.  What mmdc does with a    *)
(* diagram is an input: it renders the diagram ("ok"), it fails ("fails"),  *)
(* or the temporary directory cannot be made and validateDiagram throws     *)
(* before its try block ("throws").                                         *)

\* validateDiagram(diagram), mkdtempSync having succeeded
validateDiagram(diagram, mmdc) ==
    IF mmdc = "ok"
    THEN [valid |-> TRUE, error |-> Null] @@ checkDiagramReadability(diagram)
    ELSE [valid |-> FALSE, error |-> "Parse error", readable |-> FALSE, warnings |-> <<>>]

\* the branch of the loop body that a validation takes
Classify(validation) ==
    IF ~validation.valid THEN "invalid"
    ELSE IF ~validation.readable /\ Len(validation.warnings) > 0 THEN "unreadable"
    ELSE "valid"

\* an end of main that fails the build for readability warnings too
ExitStatusStrict(invalid, unreadable) == IF invalid > 0 \/ unreadable > 0 THEN 1 ELSE 0

\* the status main exits with after the summary
ExitStatus(invalid, unreadable) ==
    IF invalid > 0 THEN 1
    ELSE IF unreadable > 0 THEN 0
    ELSE 0

\* the largest number of diagrams extracted from the markdown files
MaxExtracted == 3

\* a vertical fan of nine branches, a horizontal edge, a diagram of another type
MainContents ==
    {JoinLines(<<<<"g","r","a","p","h"," ","T","D">>>> \o Fan(9)),
     JoinLines(<<<<"g","r","a","p","h"," ","L","R">>>> \o Fan(1)),
     <<"s","t","a","t","e","D","i","a","g","r","a","m">>}

Extracted ==
    {[content |-> c, mmdc |-> m] : c \in MainContents, m \in {"ok", "fails"}}
        \cup {[content |-> <<"p","i","e">>, mmdc |-> "throws"]}

\* one iteration of the inner loop of main, with the catch of main when
\* validateDiagram throws
Validate ==
    /\ mainPhase = "loop" /\ Len(pending) > 0
    /\ pending' = Tail(pending)
    /\ totalDiagrams' = totalDiagrams + 1
    /\ LET Count(category) ==
               /\ invalidDiagrams' = invalidDiagrams + (IF category = "invalid" THEN 1 ELSE 0)
               /\ unreadableDiagrams' = unreadableDiagrams + (IF category = "unreadable" THEN 1 ELSE 0)
               /\ validated' = Append(validated, Head(pending))
               /\ UNCHANGED <<caught, mainPhase, mainExit>>
           Body(item) ==
               IF item.mmdc = "throws"
               THEN /\ caught' = TRUE /\ mainPhase' = "exited" /\ mainExit' = 1
                    /\ UNCHANGED <<validated, invalidDiagrams, unreadableDiagrams>>
               ELSE Count(Classify(validateDiagram(item.content, item.mmdc)))
       IN  Body(Head(pending))
    /\ UNCHANGED <<parseVars, ruleVars, metricVars, engineVars, legacyVars, widthVars, configVars,
                   extractVars, cliVars>>

\* the summary and the exit of main after the loops
Summary ==
    /\ mainPhase = "loop" /\ Len(pending) = 0
    /\ mainPhase' = "exited"
    /\ mainExit' = ExitStatus(invalidDiagrams, unreadableDiagrams)
    /\ UNCHANGED <<pending, validated, caught, totalDiagrams, invalidDiagrams, unreadableDiagrams>>
    /\ UNCHANGED <<parseVars, ruleVars, metricVars, engineVars, legacyVars, widthVars, configVars,
                   extractVars, cliVars>>

\* main has set its counters to zero
MainStart ==
    /\ validated = <<>> /\ caught = FALSE
    /\ totalDiagrams = 0 /\ invalidDiagrams = 0 /\ unreadableDiagrams = 0
    /\ mainPhase = "loop" /\ mainExit = -1

MainInit == pending \in SeqsUpTo(Extracted, MaxExtracted) /\ MainStart

\* main is not run
MainIdle ==
    /\ pending = <<>> /\ validated = <<>> /\ caught = FALSE
    /\ totalDiagrams = 0 /\ invalidDiagrams = 0 /\ unreadableDiagrams = 0
    /\ mainPhase = "idle" /\ mainExit = -1

-----------------------------------------------------------------------------
(* Specifications *)

ParseNext == Parse

\* parseClassDiagram called once
InitParse == ParseInit /\ RulesIdle /\ MetricsIdle /\ EngineIdle /\ LegacyIdle /\ WidthIdle /\ ConfigIdle /\ ExtractIdle /\ CliIdle /\ MainIdle

SpecParse == InitParse /\ [][ParseNext]_vars

\* parseClassDiagram called once on relationship lines
InitRelations == RelationsInit /\ RulesIdle /\ MetricsIdle /\ EngineIdle /\ LegacyIdle /\ WidthIdle /\ ConfigIdle /\ ExtractIdle /\ CliIdle /\ MainIdle

SpecRelations == InitRelations /\ [][ParseNext]_vars

\* parseClassDiagram called once on member declarations
InitMembers == MembersInit /\ RulesIdle /\ MetricsIdle /\ EngineIdle /\ LegacyIdle /\ WidthIdle /\ ConfigIdle /\ ExtractIdle /\ CliIdle /\ MainIdle

SpecMembers == InitMembers /\ [][ParseNext]_vars

\* parseClassDiagram called once on inheritance lines
InitChain == ChainInit /\ RulesIdle /\ MetricsIdle /\ EngineIdle /\ LegacyIdle /\ WidthIdle /\ ConfigIdle /\ ExtractIdle /\ CliIdle /\ MainIdle

SpecChain == InitChain /\ [][ParseNext]_vars

\* loadConfig called once
InitConfig ==
    ConfigInit /\ ParseIdle /\ RulesIdle /\ MetricsIdle /\ EngineIdle /\ LegacyIdle /\ WidthIdle /\ ExtractIdle
        /\ CliIdle /\ MainIdle

ConfigNext == LoadConfig

SpecConfig == InitConfig /\ [][ConfigNext]_vars

\* parseClassDiagram called once on a text with lines that match no pattern
InitNoise ==
    NoiseInit /\ RulesIdle /\ MetricsIdle /\ EngineIdle /\ LegacyIdle /\ WidthIdle /\ ConfigIdle /\ ExtractIdle
        /\ CliIdle /\ MainIdle

SpecNoise == InitNoise /\ [][ParseNext]_vars

\* parseClassDiagram called once on a class block
InitBlock ==
    BlockInit /\ RulesIdle /\ MetricsIdle /\ EngineIdle /\ LegacyIdle /\ WidthIdle /\ ConfigIdle /\ ExtractIdle
        /\ CliIdle /\ MainIdle

SpecBlock == InitBlock /\ [][ParseNext]_vars

\* extractMermaidDiagrams called once
InitExtract ==
    ExtractInit /\ ParseIdle /\ RulesIdle /\ MetricsIdle /\ EngineIdle /\ LegacyIdle /\ WidthIdle /\ ConfigIdle
        /\ CliIdle /\ MainIdle

ExtractNext == Extract

SpecExtract == InitExtract /\ [][ExtractNext]_vars

\* the command is run once
InitCli ==
    CliInit /\ ParseIdle /\ RulesIdle /\ MetricsIdle /\ EngineIdle /\ LegacyIdle /\ WidthIdle /\ ConfigIdle
        /\ ExtractIdle /\ MainIdle

CliNext == Analyse \/ ShowResult \/ Exit

SpecCli == InitCli /\ [][CliNext]_vars

\* main is run once on the extracted diagrams
InitMain ==
    MainInit /\ ParseIdle /\ RulesIdle /\ MetricsIdle /\ EngineIdle /\ LegacyIdle /\ WidthIdle /\ ConfigIdle
        /\ ExtractIdle /\ CliIdle

MainNext == Validate \/ Summary

SpecMain == InitMain /\ [][MainNext]_vars

\* parseClassDiagram called three times
InitIdem == IdemInit /\ RulesIdle /\ MetricsIdle /\ EngineIdle /\ LegacyIdle /\ WidthIdle /\ ConfigIdle /\ ExtractIdle /\ CliIdle /\ MainIdle

SpecIdem == InitIdem /\ [][ParseNext]_vars

RulesNext == Check

\* two checks on one diagram
InitRules == RulesInit /\ ParseIdle /\ MetricsIdle /\ EngineIdle /\ LegacyIdle /\ WidthIdle /\ ConfigIdle /\ ExtractIdle /\ CliIdle /\ MainIdle

SpecRules == InitRules /\ [][RulesNext]_vars

\* one reserved-words check on one diagram
InitWords == WordsInit /\ ParseIdle /\ MetricsIdle /\ EngineIdle /\ LegacyIdle /\ WidthIdle /\ ConfigIdle /\ ExtractIdle /\ CliIdle /\ MainIdle

SpecWords == InitWords /\ [][RulesNext]_vars

\* checkDiagramReadability called once
InitLegacy == LegacyInit /\ ParseIdle /\ RulesIdle /\ MetricsIdle /\ EngineIdle /\ WidthIdle /\ ConfigIdle /\ ExtractIdle /\ CliIdle /\ MainIdle

LegacyNext == CheckReadability

SpecLegacy == InitLegacy /\ [][LegacyNext]_vars

\* the width rule checks one diagram
InitWidth == WidthInit /\ ParseIdle /\ RulesIdle /\ MetricsIdle /\ EngineIdle /\ LegacyIdle /\ ConfigIdle /\ ExtractIdle /\ CliIdle /\ MainIdle

WidthNext == CheckWidth

SpecWidth == InitWidth /\ [][WidthNext]_vars

\* the metrics and the longest path of one canonical graph
InitMetrics == MetricsInit /\ ParseIdle /\ RulesIdle /\ EngineIdle /\ LegacyIdle /\ WidthIdle /\ ConfigIdle /\ ExtractIdle /\ CliIdle /\ MainIdle

SpecMetrics == InitMetrics /\ [][MetricsNext]_vars

\* the pipeline is synchronous and runs to completion: a step that can be taken is taken
SpecMetricsRun == SpecMetrics /\ WF_vars(MetricsNext)

\* the analysis of one file
InitEngine == EngineInit /\ ParseIdle /\ RulesIdle /\ MetricsIdle /\ LegacyIdle /\ WidthIdle /\ ConfigIdle /\ ExtractIdle /\ CliIdle /\ MainIdle

SpecEngine == InitEngine /\ [][EngineNext]_vars

-----------------------------------------------------------------------------
(* Properties of the graph parseClassDiagram returns *)

\* the elements of a sequence
Range(q) == {q[i] : i \in 1..Len(q)}

\* the sum of the lengths of the lists of a Map
RECURSIVE SumLengths(_, _)
SumLengths(map, keys) ==
    IF keys = {} THEN 0
    ELSE LET k == CHOOSE x \in keys : TRUE
         IN  Len(map[k]) + SumLengths(map, keys \ {k})

TotalDegree(map) == SumLengths(map, DOMAIN map)

\* the identifiers that are the from or the to of an edge
Endpoints(g) == {g.edges[i].from : i \in 1..Len(g.edges)} \cup {g.edges[i].to : i \in 1..Len(g.edges)}

\* C3: in the graph parseClassDiagram returns, every identifier that is the from
\* or the to of an edge is in the node list and is a key of the forward and of
\* the reverse adjacency map.
C3_EndpointsAreNodesAndKeys ==
    \A n \in Endpoints(graph) :
        /\ n \in Range(graph.nodes)
        /\ n \in DOMAIN graph.adjacencyList
        /\ n \in DOMAIN graph.reverseAdjacencyList

\* C4: in the graph parseClassDiagram returns, the number of edges is the number
\* of parsed relationships, the sum of the outdegrees and the sum of the indegrees.
C4_EdgeCountIsDegreeSum ==
    calls > 0 =>
        /\ Len(graph.edges) = Len(relationships)
        /\ TotalDegree(graph.adjacencyList) = Len(graph.edges)
        /\ TotalDegree(graph.reverseAdjacencyList) = Len(graph.edges)

\* a returned graph with three edges, two of them the same pair and one a self-edge
C4_Witness ==
    /\ calls > 0
    /\ Len(graph.edges) = 3
    /\ \E i, j \in 1..3 : i # j /\ graph.edges[i].from = graph.edges[j].from
                               /\ graph.edges[i].to = graph.edges[j].to
    /\ \E i \in 1..3 : graph.edges[i].from = graph.edges[i].to
    /\ \E i \in 1..3 : graph.edges[i].from # graph.edges[i].to

\* C5: a later call of parseClassDiagram with the text of the first call returns
\* what the first call returned (classes, relationships, node list, edge list and
\* both adjacency maps), whatever was parsed in between.
C5_ParseIsIdempotent ==
    (first.set /\ content = first.text) => Returned = first.returned

\* the first text parsed a second time after another text that left a class block
\* open, with classes and relationships found
C5_Witness ==
    /\ calls = 3
    /\ inputs[2] # inputs[1]
    /\ content = first.text
    /\ Len(classes) > 0
    /\ Len(relationships) > 0
    /\ ExtractClassesRun(inputs[2]).inClassBlock

\* the relationship a line stands for: the line is the text of an item, or the
\* association with multiplicity
StandsFor(line, rel) ==
    \/ \E item \in RelationItems :
          /\ line = Render(item)
          /\ rel.type = RelationKinds[item.op]
          /\ rel.from = (IF item.op = OpInheritance THEN item.right ELSE item.left)
          /\ rel.to = (IF item.op = OpInheritance THEN item.left ELSE item.right)
    \/ /\ line = LineMultiplicity
       /\ rel.type = "association" /\ rel.from = <<"Z","o","o">> /\ rel.to = <<"C","a","t">>

\* C17: every relationship line yields exactly one relationship; a line P <|-- C gives
\* type inheritance with from = C and to = P, and the edge and the adjacency run
\* C -> P; for *-- (composition), o-- (aggregation), --> (association) and ..>
\* (dependency) from is the left operand and to the right one.
C17_OneRelationshipPerLine ==
    (calls = 1 /\ content \in RelationTexts) =>
        LET lines == SplitLines(content)
        IN  /\ Len(relationships) = Len(lines)
            /\ Len(graph.edges) = Len(lines)
            /\ \A k \in 1..Len(lines) :
                   /\ k <= Len(relationships) /\ StandsFor(lines[k], relationships[k])
                   /\ graph.edges[k].from = relationships[k].from
                   /\ graph.edges[k].to = relationships[k].to
                   /\ relationships[k].from \in DOMAIN graph.adjacencyList
                   /\ relationships[k].to \in Range(graph.adjacencyList[relationships[k].from])

\* "Zoo <|-- Cat" is parsed: one inheritance from Cat to Zoo, adjacency Cat -> Zoo
C17_Witness ==
    /\ calls = 1
    /\ content = <<"Z","o","o"," ","<","|","-","-"," ","C","a","t">>
    /\ Len(relationships) = 1
    /\ relationships[1].type = "inheritance"
    /\ relationships[1].from = <<"C","a","t">> /\ relationships[1].to = <<"Z","o","o">>
    /\ graph.adjacencyList = (<<"C","a","t">> :> <<<<"Z","o","o">>>>)

\* the members the lines declare for a class, in declaration order: of a block line
\* the text after the visibility, of a line outside the block the text after the colon
RECURSIVE MembersOf(_, _, _)
MembersOf(lines, name, inBlock) ==
    IF lines = <<>> THEN <<>>
    ELSE LET line == Head(lines)
         IN  IF line = LineOpenA THEN MembersOf(Tail(lines), name, TRUE)
             ELSE IF line = LineClose THEN MembersOf(Tail(lines), name, FALSE)
             ELSE IF inBlock
                  THEN LET b == CHOOSE b \in BlockItems : RenderBlock(b) = line
                       IN  (IF name = <<"A">> THEN <<b.text>> ELSE <<>>)
                               \o MembersOf(Tail(lines), name, inBlock)
             ELSE LET l == CHOOSE l \in LineItems : RenderLine(l) = line
                  IN  (IF name = l.class THEN <<l.text>> ELSE <<>>)
                          \o MembersOf(Tail(lines), name, inBlock)

\* C18: every member, declared in a block or on a line of its own, is in exactly one
\* list of its class: in methods when its text contains "(", in attributes
\* otherwise, and each list keeps the declaration order.
C18_MembersSplitByParenthesis ==
    (calls = 1 /\ content \in MemberTexts) =>
        \A name \in {<<"A">>, <<"B">>} :
            LET members      == MembersOf(SplitLines(content), name, FALSE)
                IsMethod(x)  == Includes(x, "(")
                IsField(x)   == ~Includes(x, "(")
            IN  (members # <<>> \/ name = <<"A">>) =>
                    \E k \in 1..Len(classes) :
                        /\ classes[k].name = name
                        /\ classes[k].methods = SelectSeq(members, IsMethod)
                        /\ classes[k].attributes = SelectSeq(members, IsField)

\* the inheritance relationship from child to parent, without label
Inherits(child, parent) ==
    [from |-> child, to |-> parent, type |-> "inheritance", label |-> Null, multiplicity |-> Null]

\* the relationships the lines of an inheritance text stand for: one per arrow line,
\* the leftmost arrow of the chained line, none for the declaration line
RECURSIVE ArrowsOf(_)
ArrowsOf(lines) ==
    IF lines = <<>> THEN <<>>
    ELSE (IF Head(lines) = LineDiagram THEN <<>>
          ELSE IF Head(lines) = LineChained THEN <<Inherits(<<"M","a","m","m","a","l">>, <<"A","n","i","m","a","l">>)>>
          ELSE LET item == CHOOSE item \in ChainItems : RenderArrow(item) = Head(lines)
               IN  <<Inherits(item.child, item.parent)>>) \o ArrowsOf(Tail(lines))

\* the class names the relationships mention
NamesIn(rels) == {rels[i].from : i \in 1..Len(rels)} \cup {rels[i].to : i \in 1..Len(rels)}

\* C21 as stated: the chained line Animal <|-- Mammal <|-- Dog <|-- Poodle yields the
\* three inheritance relationships Mammal -> Animal, Dog -> Mammal, Poodle -> Dog
\* over four classes, so the maximum inheritance depth is 4.
C21_ChainedLineGivesChain ==
    (calls = 1 /\ content = LineChained) =>
        /\ Len(relationships) = 3
        /\ Cardinality(NamesIn(relationships)) = 4
        /\ maxInheritanceDepth(relationships) = 4

\* C21: written one arrow per line, the hierarchy yields one inheritance relationship
\* per arrow line, from the child to the parent; the three arrows Animal <|-- Mammal,
\* Mammal <|-- Dog, Dog <|-- Poodle give four class names on four levels, one per
\* level. Chained on one line only the leftmost arrow is read: Mammal -> Animal,
\* two classes on two levels.
C21_ChainFromArrowLines ==
    (calls = 1 /\ content \in ChainTexts) =>
        LET lines == SplitLines(content)
        IN  /\ relationships = ArrowsOf(lines)
            /\ (\A item \in ChainItems : \E k \in 1..Len(lines) : lines[k] = RenderArrow(item)) =>
                   /\ Cardinality(NamesIn(relationships)) = 4
                   /\ maxInheritanceDepth(relationships) = 4
            /\ content = LineChained =>
                   /\ relationships = <<Inherits(<<"M","a","m","m","a","l">>, <<"A","n","i","m","a","l">>)>>
                   /\ maxInheritanceDepth(relationships) = 2

\* the three arrow lines in the order of the hierarchy are parsed
C21_Witness ==
    /\ calls = 1
    /\ content = JoinLines(<<<<"A","n","i","m","a","l"," ","<","|","-","-"," ","M","a","m","m","a","l">>,
                             <<"M","a","m","m","a","l"," ","<","|","-","-"," ","D","o","g">>,
                             <<"D","o","g"," ","<","|","-","-"," ","P","o","o","d","l","e">>>>)
    /\ Len(relationships) = 3
    /\ relationships[3] = Inherits(<<"P","o","o","d","l","e">>, <<"D","o","g">>)
    /\ maxInheritanceDepth(relationships) = 4

\* a class block is open before line k: the last of the lines "class A {" and "}"
\* before it is "class A {"
RECURSIVE OpenBefore(_, _)
OpenBefore(lines, k) ==
    IF k <= 1 THEN FALSE
    ELSE IF lines[k - 1] = LineOpenA THEN TRUE
    ELSE IF lines[k - 1] = LineClose THEN FALSE
    ELSE OpenBefore(lines, k - 1)

\* the lines without line k
Without(lines, k) == SubSeq(lines, 1, k - 1) \o SubSeq(lines, k + 1, Len(lines))

\* C24: a line outside a class block that matches no class, member or relationship
\* pattern (a %% comment, the declaration line, a statement without pattern, an
\* empty line, a "}" that closes nothing) is ignored: the call returns the same
\* classes, relationships and graph as for the text with that line removed.
C24_UnmatchedLinesIgnored ==
    (calls = 1 /\ content \in NoiseTexts) =>
        LET lines == SplitLines(content)
        IN  \A k \in 1..Len(lines) :
                ((lines[k] \in NoiseLines \/ lines[k] = LineClose) /\ ~OpenBefore(lines, k)) =>
                    Returned = ParseClassDiagram(JoinLines(Without(lines, k)))

\* "B : x", a comment that holds an arrow and "A <|-- B" are parsed: one class
\* and one relationship
C24_Witness ==
    /\ calls = 1
    /\ content = JoinLines(<<LineMemberB, LineComment, LineInherit>>)
    /\ Len(classes) = 1
    /\ Len(relationships) = 1
    /\ relationships[1].from = <<"B">>

\* the member texts of the lines between "class A {" and "}", in declaration order
RECURSIVE DeclaredIn(_, _)
DeclaredIn(lines, k) ==
    IF k > Len(lines) \/ lines[k] = LineClose THEN <<>>
    ELSE <<(CHOOSE b \in BlockDeclarations : RenderBlock(b) = lines[k]).text>>
             \o DeclaredIn(lines, k + 1)

\* C25: every line between "class A {" and the next "}" (members written as
\* "name: Type" or "name : Type" included) is added to A's attribute or method
\* list and creates no other class; after the "}" the parser is outside any block
\* and the later lines that match no pattern are attributed to no class.
C25_BlockMembersBelongToClass ==
    (calls = 1 /\ content \in BlockTexts) =>
        LET members     == DeclaredIn(SplitLines(content), 2)
            IsMethod(x) == Includes(x, "(")
            IsField(x)  == ~Includes(x, "(")
        IN  /\ Len(classes) = 1
            /\ classes[1].name = <<"A">>
            /\ classes[1].methods = SelectSeq(members, IsMethod)
            /\ classes[1].attributes = SelectSeq(members, IsField)
            /\ ~inClassBlock
            /\ currentClass = Null

-----------------------------------------------------------------------------
(* Properties of the rule checks *)

\* a check returned an issue
Reported(result) == result # Null

\* C1: when one threshold rule is checked on the same diagram and metrics under two
\* configurations that differ in the threshold only, and it reports an issue under
\* the larger threshold, it reports one under the smaller threshold too.
C1_ThresholdMonotonic ==
    (Len(results) = 2 /\ plan[1].rule = plan[2].rule) =>
        \A i, j \in 1..2 :
            ( /\ Has(plan[i].config, "threshold")
              /\ Has(plan[j].config, "threshold")
              /\ plan[i].config.threshold <= plan[j].config.threshold
              /\ Reported(results[j]) )
            => Reported(results[i])

\* the cyclomatic-complexity rule reports a diagram under a threshold and no longer
\* under a larger one
C1_Witness ==
    /\ Len(results) = 2
    /\ plan[1].rule = "cyclomatic-complexity" /\ plan[2].rule = "cyclomatic-complexity"
    /\ Has(plan[1].config, "threshold") /\ Has(plan[2].config, "threshold")
    /\ plan[1].config.threshold < plan[2].config.threshold
    /\ Reported(results[1]) /\ ~Reported(results[2])

\* C10: max-nodes-high-density reports only when graphDensity > 0.3,
\* max-nodes-low-density only when graphDensity <= 0.3, and whatever the two rule
\* configurations are, the two rules never both report for the same metrics.
C10_NodeCountRulesExclusive ==
    ( /\ Len(results) = 2
      /\ plan[1].rule = "max-nodes-high-density"
      /\ plan[2].rule = "max-nodes-low-density" ) =>
        /\ Reported(results[1]) => Gt(ruleMetrics.graphDensity, DensityLimit)
        /\ Reported(results[2]) => Le(ruleMetrics.graphDensity, DensityLimit)
        /\ ~(Reported(results[1]) /\ Reported(results[2]))

\* C11: maxEdgesRule.check returns an issue if and only if metrics.edgeCount is strictly
\* greater than the effective threshold: config.threshold when the configuration sets
\* one (0 included), 100 otherwise; an edgeCount equal to the threshold gives no issue.
C11_MaxEdgesStrictlyAbove ==
    \A i \in 1..Len(results) :
        LET config    == plan[i].config
            effective == IF Has(config, "threshold") THEN config.threshold ELSE 100
        IN  plan[i].rule = "max-edges" =>
                (Reported(results[i]) <=> ruleMetrics.edgeCount > effective)

\* 100 edges: no issue under the default threshold 100, an issue under a configured 0
C11_Witness ==
    /\ Len(results) = 2
    /\ plan[1].rule = "max-edges" /\ plan[2].rule = "max-edges"
    /\ ~Has(plan[1].config, "threshold")
    /\ Has(plan[2].config, "threshold") /\ plan[2].config.threshold = 0
    /\ ruleMetrics.edgeCount = 100
    /\ ~Reported(results[1]) /\ Reported(results[2])

\* the decision nodes the text declares from position i on: an identifier, optional
\* white space, and a label between braces
RECURSIVE DiamondsFrom(_, _)
DiamondsFrom(s, i) ==
    IF i > Len(s) THEN 0
    ELSE IF s[i] \in WordChars \ Digits /\ WordStart(s, i)
         THEN LET k == SkipSpace(s, WordEnd(s, i))
                  e == IF k <= Len(s) /\ s[k] = "{" THEN CloseAt(s, k + 1) ELSE 0
              IN  IF e > 0 THEN 1 + DiamondsFrom(s, e + 1) ELSE DiamondsFrom(s, WordEnd(s, i))
         ELSE DiamondsFrom(s, i + 1)

\* k: the number of decision-shaped nodes Id{label} of a diagram
DecisionNodes(text) == DiamondsFrom(text, 1)

\* C12: for a diagram with k decision-shaped nodes the cyclomatic-complexity rule
\* computes complexity k + 1, and under the default configuration (threshold 10,
\* severity warning) it returns an issue, of severity warning, if and only if
\* k + 1 > 10.
C12_ComplexityIsDecisionsPlusOne ==
    \A i \in 1..Len(results) :
        LET k == DecisionNodes(ruleDiagram.content)
        IN  plan[i].rule = "cyclomatic-complexity" =>
                /\ Reported(results[i]) =>
                       results[i].message[2] = k + 1 /\ results[i].message[4] = k
                /\ ~Has(plan[i].config, "threshold") =>
                       /\ Reported(results[i]) <=> k + 1 > 10
                       /\ Reported(results[i]) => results[i].severity = "warning"

-----------------------------------------------------------------------------
(* Properties of the reserved-words rule *)

\* the first word of a trimmed line
FirstWord(t) == SubSeq(t, 1, WordEnd(t, 1) - 1)

\* a directive line: it begins with style, class, classDef, click or direction, or
\* consists solely of end
DirectiveLine(line) ==
    LET t == Trim(line)
    IN  \/ t = <<"e","n","d">>
        \/ \E p \in DirectivePrefixes : FirstWord(t) = SubSeq(p, 1, Len(p) - 1)

\* a declaration line: it begins with graph, flowchart or subgraph
DeclarationLine(line) ==
    \E p \in DeclarationPrefixes : FirstWord(Trim(line)) = SubSeq(p, 1, Len(p) - 1)

\* the identifiers an issue lists, reserved words and problematic patterns
Listed(result) ==
    IF Reported(result) THEN Range(result.suggestion[1]) \cup Range(result.suggestion[2])
    ELSE {}

\* C13: a word that occurs in the diagram only as a structural keyword or only on
\* directive lines never makes reservedWordsRule report an issue: every identifier
\* an issue lists occurs on a line that is neither a directive nor a declaration and
\* is no structural keyword.
C13_DirectivesAreNotNodeIds ==
    \A i \in 1..Len(results) :
        plan[i].rule = "reserved-words" =>
            \A w \in Listed(results[i]) :
                /\ w \notin structuralKeywords
                /\ \E line \in Range(SplitLines(ruleDiagram.content)) :
                       /\ ~DirectiveLine(line) /\ ~DeclarationLine(line)
                       /\ w \in Range(IdsFrom(<<>>, line, 1))

\* the character that closes the label text a character opens
LabelClose(c) ==
    CASE c = "[" -> "]"
      [] c = "{" -> "}"
      [] c = "(" -> ")"
      [] c = "|" -> "|"

\* the line from position i on with its label text A[...], A{...}, A(...), |...|
\* blanked out
RECURSIVE Unlabelled(_, _)
Unlabelled(t, i) ==
    IF i > Len(t) THEN <<>>
    ELSE LET e == IF t[i] \in {"[", "{", "(", "|"} THEN FirstAt(t, i + 1, LabelClose(t[i])) ELSE 0
         IN  IF e > 0 THEN <<" ">> \o Unlabelled(t, e + 1)
             ELSE <<t[i]>> \o Unlabelled(t, i + 1)

\* C14: reservedWordsRule reports node identifiers only: every identifier an issue
\* lists occurs in the diagram outside node label text (A[...], A{...}, A(...)) and
\* edge label text (|...|); a word that occurs in label text only causes no issue.
C14_LabelsAreNotNodeIds ==
    \A i \in 1..Len(results) :
        plan[i].rule = "reserved-words" =>
            \A w \in Listed(results[i]) :
                \E line \in Range(SplitLines(ruleDiagram.content)) :
                    w \in Range(IdsFrom(<<>>, Unlabelled(line, 1), 1))

\* C15: for every word of the reserved set {end, click, call, style, class, classDef,
\* direction} and every letter casing of it, a diagram that uses it as a node
\* identifier on a non-directive line makes reservedWordsRule return an issue that
\* lists the identifier under the reserved words.
C15_ReservedSetCaseInsensitive ==
    \A i \in 1..Len(results) :
        plan[i].rule = "reserved-words" =>
            \A w \in RESERVED_WORDS : \A c \in Casings(w) :
                Uses(c) \in Range(SplitLines(ruleDiagram.content)) =>
                    Reported(results[i]) /\ c \in Range(results[i].suggestion[1])

-----------------------------------------------------------------------------
(* Properties of the legacy validator *)

\* C19: for a diagram with a vertical (TD/TB) layout no warning recommends converting
\* it to a horizontal (LR) layout, and no warning for a horizontal layout recommends
\* converting to horizontal.
C19_NeverAdvisesHorizontal ==
    \A i \in 1..Len(readability) :
        LET declared == Trim(SplitLines(legacyDiagram)[1])
        IN  declared \in {<<"g","r","a","p","h"," ","T","D">>, <<"f","l","o","w","c","h","a","r","t"," ","T","B">>, <<"g","r","a","p","h"," ","L","R">>} =>
                \A k \in 1..Len(readability[i].warnings) :
                    AdviceUseLR \notin Range(readability[i].warnings[k].advice)

-----------------------------------------------------------------------------
(* Properties of the width rule *)

\* a left-right graph of 10 sequential nodes with an average label length of 15
ScenarioA ==
    /\ Len(widthResults) = 1
    /\ widthCase.layout = "LR"
    /\ widthCase.metrics.nodeCount = 10
    /\ widthCase.labelMetrics.avgLength = 15

Ascending(thresholds) ==
    thresholds.info < thresholds.warning /\ thresholds.warning < thresholds.error

\* C22: every built-in viewport profile (default, mkdocs, docusaurus, github,
\* mobile) has strictly increasing width thresholds and strictly increasing height
\* thresholds, its maxWidth and maxHeight are its width and height error
\* thresholds, and getDefaultProfile returns the profile named default; so is the
\* profile every width check is made under.
C22_ProfilesWellFormed ==
    /\ DOMAIN builtInViewportProfiles = {"default", "mkdocs", "docusaurus", "github", "mobile"}
    /\ \A name \in DOMAIN builtInViewportProfiles :
           LET profile == getBuiltInProfile(name)
           IN  /\ profile.name = name
               /\ Ascending(profile.widthThresholds)
               /\ Ascending(profile.heightThresholds)
               /\ profile.maxWidth = profile.widthThresholds.error
               /\ profile.maxHeight = profile.heightThresholds.error
    /\ getDefaultProfile.name = "default"
    /\ getDefaultProfile = getBuiltInProfile("default")
    /\ widthCase # Null =>
           /\ widthCase.profile \in DOMAIN builtInViewportProfiles
           /\ Ascending(getBuiltInProfile(widthCase.profile).widthThresholds)

\* a check under the mobile profile reports at its error tier, which is its maxWidth
C22_Witness ==
    /\ ~NotMeasured
    /\ widthCase.profile = "mobile"
    /\ widthResults[1].estimatedWidth > getBuiltInProfile("mobile").maxWidth
    /\ widthResults[1].issue # <<>>
    /\ widthResults[1].issue[1].severity = "error"

-----------------------------------------------------------------------------
(* Properties of the metrics *)

\* C2: the graphDensity of the Metrics snapshot of every canonical graph is at
\* least 0 and at most 1, and it is 0 when the graph has at most one node.
C2_DensityInUnitInterval ==
    graphMetrics # Null =>
        /\ Le(<<0, 1>>, graphMetrics.graphDensity)
        /\ Le(graphMetrics.graphDensity, <<1, 1>>)
        /\ graphMetrics.nodeCount <= 1 => graphMetrics.graphDensity[1] = 0

\* C6: on every canonical graph the longest-path search ends, the length it
\* returns is a number between 0 and the number of nodes, and it is 0 for a
\* single node without edges.
C6_LongestPathTerminates ==
    /\ <>(phase = "done")
    /\ [](phase = "done" =>
            /\ longest \in 0..Len(canon.nodes)
            /\ (Len(canon.nodes) = 1 /\ canon.edges = <<>>) => longest = 0)

\* the search has ended on a graph with a cycle through two nodes and a self-edge
C6_Witness ==
    /\ phase = "done"
    /\ longest > 0
    /\ \E i, j \in 1..Len(canon.edges) :
          /\ canon.edges[i].from # canon.edges[i].to
          /\ canon.edges[i].from = canon.edges[j].to
          /\ canon.edges[i].to = canon.edges[j].from
    /\ \E i \in 1..Len(canon.edges) : canon.edges[i].from = canon.edges[i].to

-----------------------------------------------------------------------------
(* Properties of the rule engine *)

\* the position of a rule name in the registry order
RegistryIndex(name) == CHOOSE i \in 1..Len(ruleRegistry) : ruleRegistry[i].name = name

\* the issues runRules has collected for an entry of a file after the first k rules
\* of the registry, when it runs on that entry alone
RECURSIVE runRules(_, _, _, _)
runRules(entry, config, bad, k) ==
    IF k = 0 THEN <<>>
    ELSE LET before  == runRules(entry, config, bad, k - 1)
             rule    == ruleRegistry[k]
             outcome == Outcome(rule, entry, config, bad)
         IN  IF config[rule.name].enabled /\ outcome # Thrown /\ outcome # Null
             THEN Append(before, outcome)
             ELSE before

\* the enabled rules among the first k of the registry whose check does not throw
NonFailing(k) ==
    {i \in 1..k : resolvedConfig[ruleRegistry[i].name].enabled /\ ruleRegistry[i].name \notin faulty}

\* C7: when the check of a rule throws, no exception reaches the command-line
\* action; the issues collected for a diagram are exactly the issues of the enabled
\* rules evaluated so far whose check does not throw; and the analysis ends only
\* when every rule is evaluated for every diagram of the file.
C7_RuleFaultIsolated ==
    /\ ~aborted
    /\ \A d \in 1..Len(file) :
          Range(issues[d]) =
              {RuleCheck(ruleRegistry[i], file[d].diagram, file[d].metrics,
                         resolvedConfig[ruleRegistry[i].name]) : i \in NonFailing(pos[d] - 1)} \ {Null}
    /\ exitCode # -1 => Analysed

\* the check of the first rule has thrown for both diagrams of a file, later rules
\* have reported for both, and the analysis has ended
C7_Witness ==
    /\ Len(file) = 2
    /\ exitCode # -1
    /\ faulty = {"max-edges"}
    /\ Len(logged) = 2
    /\ \A d \in 1..2 : Len(issues[d]) >= 2

\* C8: the issues collected for a diagram come from rules at strictly increasing
\* positions of the registry, so each rule contributes at most one issue and the
\* issues are in registration order, and no issue comes from a disabled rule.
C8_IssuesInRegistryOrder ==
    \A d \in 1..Len(file) :
        /\ \A i, j \in 1..Len(issues[d]) :
              i < j => RegistryIndex(issues[d][i].rule) < RegistryIndex(issues[d][j].rule)
        /\ \A i \in 1..Len(issues[d]) : resolvedConfig[issues[d][i].rule].enabled

\* a diagram with three issues, the last one the single issue of reserved-words for
\* three offending identifiers, while a disabled rule would have reported
C8_Witness ==
    \E d \in 1..Len(file) :
        /\ pos[d] > Len(registry)
        /\ Len(issues[d]) = 3
        /\ issues[d][3].rule = "reserved-words"
        /\ issues[d][3].message = <<"Found", 3>>
        /\ \E n \in RuleNames :
              /\ ~resolvedConfig[n].enabled
              /\ Reported(RuleCheck(RuleNamed(n), file[d].diagram, file[d].metrics, BaseConfig))

\* C9: however the checks of the diagrams of a file are interleaved, the rule
\* objects stay as registered, the issues collected for each diagram are the
\* issues runRules collects when it runs on that diagram alone, and no step
\* changes a diagram, its metrics or the configuration.
C9_ChecksShareNoState ==
    /\ [](/\ registry = ruleRegistry
          /\ \A d \in 1..Len(file) :
                issues[d] = runRules(file[d], resolvedConfig, faulty, pos[d] - 1))
    /\ [][file' = file /\ resolvedConfig' = resolvedConfig]_vars

\* the checks of two different diagrams are interleaved: both are part-way through
\* the registry, at different rules, and both have issues
C9_Witness ==
    /\ Len(file) = 2
    /\ file[1] # file[2]
    /\ pos[1] \in 2..Len(registry) /\ pos[2] \in 2..Len(registry)
    /\ pos[1] < pos[2]
    /\ issues[1] # <<>> /\ issues[2] # <<>>

-----------------------------------------------------------------------------
(* Properties of the configuration loader *)

\* the rule entries of the configuration file, none when there is no file
FileRules == IF userConfig = Null THEN EmptyMap ELSE userConfig.rules

\* C23: loadConfig merges the file into the defaults field by field per rule: a
\* field the file gives for a rule takes the file's value, a field of that rule the
\* file leaves out keeps its default, and a rule the file does not mention equals
\* its default configuration.
C23_MergedFieldByField ==
    ~NotLoaded =>
        /\ DOMAIN loadedConfig.rules = DOMAIN defaultConfig.rules
        /\ \A r \in DOMAIN defaultConfig.rules :
               IF r \in DOMAIN FileRules
               THEN /\ DOMAIN loadedConfig.rules[r] = DOMAIN defaultConfig.rules[r]
                    /\ \A f \in DOMAIN defaultConfig.rules[r] :
                           loadedConfig.rules[r][f] = IF f \in DOMAIN FileRules[r] THEN FileRules[r][f]
                                                ELSE defaultConfig.rules[r][f]
               ELSE loadedConfig.rules[r] = defaultConfig.rules[r]

\* the file { rules: { 'max-edges': { enabled: false } } } is loaded: max-edges is
\* disabled and keeps threshold 100 and severity error
C23_Witness ==
    /\ ~NotLoaded
    /\ userConfig = [rules |-> ("max-edges" :> ("enabled" :> FALSE))]
    /\ loadedConfig.rules["max-edges"] = [enabled |-> FALSE, severity |-> "error", threshold |-> 100]
    /\ loadedConfig.rules["cyclomatic-complexity"] = defaultConfig.rules["cyclomatic-complexity"]

-----------------------------------------------------------------------------
(* Properties of the extraction *)

\* line k of the lines is an opening fence, a closing fence
IsOpen(lines, k) == Trim(lines[k]) = FenceOpen

IsClose(lines, k) == Trim(lines[k]) = FenceClose

\* the opening fences that are followed by a closing fence before any other opening
\* fence, each with the first closing fence after it
FencePairs(lines) ==
    {p \in (1..Len(lines)) \X (1..Len(lines)) :
        /\ p[1] < p[2]
        /\ IsOpen(lines, p[1])
        /\ IsClose(lines, p[2])
        /\ \A k \in (p[1] + 1)..(p[2] - 1) : ~IsOpen(lines, k) /\ ~IsClose(lines, k)}

\* the n-th pair in document order
NthPair(pairs, n) == CHOOSE p \in pairs : Cardinality({q \in pairs : q[1] < p[1]}) = n - 1

\* C26: extractMermaidDiagrams returns exactly one diagram for each opening fence
\* that is followed by a closing fence before any other opening fence, in document
\* order, and its content is the lines strictly between the two fences; so an
\* opening fence that is never closed gives no diagram, a closing fence outside a
\* block is ignored and no line outside the fences is in a content.
C26_OneDiagramPerClosedFence ==
    ~NotExtracted =>
        LET lines == SplitLines(markdown)
            pairs == FencePairs(lines)
            found == extracted[1]
        IN  /\ Len(found) = Cardinality(pairs)
            /\ \A n \in 1..Len(found) :
                   LET p == NthPair(pairs, n)
                   IN  found[n].content = JoinLines(SubSeq(lines, p[1] + 1, p[2] - 1))

\* an unclosed opening fence, then a closed block of one line, then a line and a
\* closing fence outside: one diagram, of that one line
C26_Witness ==
    /\ ~NotExtracted
    /\ markdown = JoinLines(<<<<" ",Tick,Tick,Tick,"m","e","r","m","a","i","d">>, <<" ",Tick,Tick,Tick,"m","e","r","m","a","i","d">>, <<"A","-","-",">","B">>,
                              FenceClose, FenceClose>>)
    /\ Len(extracted[1]) = 1
    /\ extracted[1][1].content = <<"A","-","-",">","B">>

\* C27: the start line of every extracted diagram is the 1-indexed number of the
\* first line after its opening fence, not the number of the fence line.
C27_StartLineAfterFence ==
    ~NotExtracted =>
        LET lines == SplitLines(markdown)
            pairs == FencePairs(lines)
            found == extracted[1]
        IN  \A n \in 1..Len(found) :
                n <= Cardinality(pairs) => found[n].line = NthPair(pairs, n)[1] + 1

-----------------------------------------------------------------------------
(* Properties of the command-line action *)

\* some issue of some result of the analysis has the severity
Reports(severity) ==
    \E d \in 1..Len(cliAnalysis.results) : HasSeverity(cliAnalysis.results[d].issues, severity)

\* C28: the action exits with status 1 if and only if the analysis throws or,
\* with rule display enabled, some reported issue has severity error; otherwise the
\* status is 0: with only warnings or info, and under --no-rules whatever the
\* severities.
C28_ExitOneIffErrors ==
    cliPhase = "exited" =>
        /\ cliExit \in {0, 1}
        /\ cliExit = 1 <=> (cliAnalysis.thrown \/ (cliOptions.rules /\ Reports("error")))
        /\ (~cliAnalysis.thrown /\ ~Reports("error")) => cliExit = 0
        /\ (~cliAnalysis.thrown /\ ~cliOptions.rules) => cliExit = 0

\* two diagrams, the second with a warning and an error, rules displayed: status 1
C28_Witness ==
    /\ cliPhase = "exited"
    /\ cliOptions.rules
    /\ cliAnalysis = [thrown |-> FALSE,
                      results |-> <<[issues |-> <<>>], [issues |-> <<"warning", "error">>]>>]
    /\ shown = 2
    /\ hasErrors /\ hasWarnings
    /\ cliExit = 1

-----------------------------------------------------------------------------
(* The counters and the exit status of the legacy validator's main *)

\* the validated diagrams that mmdc failed to render
Invalid == {i \in 1..Len(validated) : validated[i].mmdc = "fails"}

\* the validated diagrams that mmdc rendered and that have readability warnings
Unreadable ==
    {i \in 1..Len(validated) :
        validated[i].mmdc = "ok" /\ Len(checkDiagramReadability(validated[i].content).warnings) > 0}

\* the validated diagrams that mmdc rendered and that have no readability warning
ValidReadable ==
    {i \in 1..Len(validated) :
        validated[i].mmdc = "ok" /\ Len(checkDiagramReadability(validated[i].content).warnings) = 0}

\* C29: when main has exited without an exception, totalDiagrams is the number of
\* diagrams, invalidDiagrams the number of those mmdc failed on, unreadableDiagrams
\* the number of rendered ones with readability warnings, and the rest, totalDiagrams
\* - invalidDiagrams - unreadableDiagrams, the number of rendered ones without; the
\* status is 1 exactly when a diagram is invalid or an exception was caught, and it is
\* 0 when the only findings are readability warnings
C29_CountedOnceAndExit ==
    mainPhase = "exited" =>
        /\ ~caught =>
            /\ totalDiagrams = Len(validated)
            /\ invalidDiagrams = Cardinality(Invalid)
            /\ unreadableDiagrams = Cardinality(Unreadable)
            /\ totalDiagrams - invalidDiagrams - unreadableDiagrams = Cardinality(ValidReadable)
        /\ mainExit = 1 <=> (Cardinality(Invalid) > 0 \/ caught)
        /\ (Cardinality(Unreadable) > 0 /\ Cardinality(Invalid) = 0 /\ ~caught) => mainExit = 0

\* main has exited with status 0 after an unreadable and a readable diagram, none invalid
C29_Witness ==
    /\ mainPhase = "exited" /\ mainExit = 0 /\ ~caught
    /\ unreadableDiagrams > 0 /\ invalidDiagrams = 0 /\ totalDiagrams > unreadableDiagrams

====
